---- MODULE Spec2Model ----
(***************************************************************************)
(* Verification model of the video_game_db_app ingestion pipeline:         *)
(*   - the cursor-based roster crawler (fetchGamesByPlatform),             *)
(*   - the revision-aware cache (WikiClient getOrFetch calls),              *)
(*   - the claim normalization engine and batch writer                     *)
(*     (hydrateGamesFromClaims parseBatch/applyBatch, enrichGames).        *)
(* Each component has its own specification over its own variables.        *)
(***************************************************************************)
EXTENDS Integers, Sequences, FiniteSets, Bags, TLC

Null == "null"

\* A null (or empty) QID string: `cursorQid ? ... : ""` treats both alike.
NullQid == << >>

(***************************************************************************)
(* Generic helpers                                                         *)
(***************************************************************************)

\* Number of copies of row r in bag b (0 when absent).
Copies(b, r) == IF r \in DOMAIN b THEN b[r] ELSE 0

\* The bag holding each element of set S once.
BagOfSet(S) == [r \in S |-> 1]

(***************************************************************************)
(* QIDs and their lexical (string) order.  A QID "Q<digits>" is modelled   *)
(* by its digit sequence; both the SPARQL FILTER(?gameQid > "...") and the *)
(* String.localeCompare of parseRosterRows compare such strings character  *)
(* by character, a proper prefix sorting first.                            *)
(***************************************************************************)

\* Q1, Q10, Q2: lexical order differs from numeric order (Q10 < Q2).
GameQids == { <<1>>, <<1, 0>>, <<2>> }

Platforms == { "P_A", "P_B" }

\* a < b as strings.
LexLess(a, b) ==
  \E k \in 1..(Len(b)) :
     /\ \A i \in 1..(k - 1) : i <= Len(a) /\ a[i] = b[i]
     /\ \/ k = Len(a) + 1
        \/ k <= Len(a) /\ a[k] < b[k]

\* The elements of S as a sequence ascending in lexical order.
SortedSeq(S) ==
  [i \in 1..Cardinality(S) |->
     CHOOSE x \in S : Cardinality({y \in S : LexLess(y, x)}) = i - 1]

\* Bound of the model: CONFIG.wdqsPageSize scaled down (LIMIT of one page).
PageSize == 2

\* Bound of the model: how many times the upstream (a roster, a page, an
\* entity) is edited during a run.
MaxUpstreamEdits == 1

(***************************************************************************)
(* Roster crawler (fetchGamesByPlatform): state                            *)
(***************************************************************************)
VARIABLES
  roster,           \* upstream: roster[p] = QIDs of the games of platform p
  rosterChanged,    \* history: roster[p] was edited since p's last reset
  edits,            \* history: number of upstream roster edits so far
  games,            \* store: Game table, a bag of QIDs
  links,            \* store: GamePlatform table, a bag of [gameQid, platformQid]
  gamesCursorQid,   \* store: Platform.gamesCursorQid
  gamesIngestedAt,  \* store: Platform.gamesIngestedAt is set (non-null)
  pc,               \* position of the crawl process
  whereSel,         \* main: the platforms selected by `where` (until findMany)
  todo,             \* platforms (PlatformRow snapshots) still to ingest
  platform,         \* PlatformRow being ingested
  cursor,           \* local variable cursor of ingestPlatform
  rows,             \* local variable rows of ingestPlatform
  txGames,          \* rows inserted into Game by the open transaction
  txLinks,          \* rows inserted into GamePlatform by the open transaction
  crashed,          \* history: a crawl process was killed
  resumedCommit,    \* history: a page was committed by a run resumed after a kill
  ingested,         \* history: platforms whose ingestPlatform returned in this run
  cursorLog         \* history: cursors committed for p since p's last reset

upstreamVars == << roster, rosterChanged, edits >>
storeVars == << games, links, gamesCursorQid, gamesIngestedAt >>
loopVars == << todo, platform, cursor >>
txVars == << txGames, txLinks >>
crawlVars == << upstreamVars, storeVars, pc, whereSel, loopVars, rows, txVars,
                crashed, resumedCommit, ingested, cursorLog >>

NoPlatform == [qid |-> Null, gamesCursorQid |-> NullQid]

\* buildGamesQuery with FILTER(?gameQid >= cursor): a repeated boundary row.
BuildGamesQueryGte(platformQid, cursorQid, pageSize) ==
  LET matching == { q \in roster[platformQid] :
                      cursorQid = NullQid \/ ~LexLess(q, cursorQid) }
      sorted == SortedSeq(matching)
  IN SubSeq(sorted, 1, IF Len(sorted) < pageSize THEN Len(sorted) ELSE pageSize)

\* buildGamesQuery with ORDER BY DESC(?gameQid): the page is the last rows.
BuildGamesQueryDesc(platformQid, cursorQid, pageSize) ==
  LET matching == { q \in roster[platformQid] :
                      cursorQid = NullQid \/ LexLess(cursorQid, q) }
      sorted == SortedSeq(matching)
  IN SubSeq(sorted,
            IF Len(sorted) < pageSize THEN 1 ELSE Len(sorted) - pageSize + 1,
            Len(sorted))

\* buildGamesQuery + the query service: the page of ?gameQid values of the
\* platform's roster with ?gameQid > cursor, ORDER BY ?gameQid LIMIT pageSize.
BuildGamesQuery(platformQid, cursorQid, pageSize) ==
  LET matching == { q \in roster[platformQid] :
                      cursorQid = NullQid \/ LexLess(cursorQid, q) }
      sorted == SortedSeq(matching)
  IN SubSeq(sorted, 1, IF Len(sorted) < pageSize THEN Len(sorted) ELSE pageSize)

\* parseRosterRows: dedupe by qid (Map) and sort ascending.
ParseRosterRows(bindings) ==
  SortedSeq({ bindings[i] : i \in DOMAIN bindings })

\* const lastQid = rows[0]?.qid ?? cursor: the cursor stops at the first row.
FirstQidOfPage(rs, cur) == IF Len(rs) > 0 THEN rs[1] ELSE cur

\* const lastQid = rows[rows.length - 1]?.qid ?? cursor
LastQid(rs, cur) == IF Len(rs) > 0 THEN rs[Len(rs)] ELSE cur

\* createMany without skipDuplicates: every row of data is inserted.
CreateManyNoSkip(table, data) == data

\* createMany({ data, skipDuplicates: true }) on a table with a primary key:
\* the rows of data (distinct) whose key is not yet in the table are inserted.
CreateManySkipDuplicates(table, data) ==
  { r \in data : Copies(table, r) = 0 }

InitCrawl ==
  /\ roster \in [Platforms -> SUBSET GameQids]
  /\ rosterChanged = [p \in Platforms |-> FALSE]
  /\ edits = 0
  /\ games = EmptyBag
  /\ links = EmptyBag
  /\ gamesCursorQid = [p \in Platforms |-> NullQid]
  /\ gamesIngestedAt = [p \in Platforms |-> FALSE]
  /\ pc = "idle"
  /\ whereSel = {}
  /\ todo = << >>
  /\ platform = NoPlatform
  /\ cursor = NullQid
  /\ rows = << >>
  /\ txGames = {}
  /\ txLinks = {}
  /\ crashed = FALSE
  /\ resumedCommit = FALSE
  /\ ingested = {}
  /\ cursorLog = [p \in Platforms |-> << >>]

\* The platforms matching `where` in findMany order (sitelinks desc, name asc),
\* each with the gamesCursorQid the store holds when main reads it.
PlatformOrder == << "P_A", "P_B" >>

FindMany(where) ==
  LET idx == { i \in DOMAIN PlatformOrder : PlatformOrder[i] \in where }
      nth(k) == CHOOSE i \in idx : Cardinality({ j \in idx : j < i }) = k - 1
  IN [k \in 1..Cardinality(idx) |->
        [qid |-> PlatformOrder[nth(k)],
         gamesCursorQid |-> gamesCursorQid[PlatformOrder[nth(k)]]]]

\* main: parseCliOptions, build `where`; --reset-cursor selects the reset step.
StartMain(sel, reset) ==
  /\ pc \in {"idle", "done"}
  /\ whereSel' = sel
  /\ pc' = IF reset THEN "reset" ELSE "find"
  /\ ingested' = {}
  /\ UNCHANGED << upstreamVars, storeVars, loopVars, rows, txVars, crashed,
                  resumedCommit, cursorLog >>

\* main: prisma.platform.updateMany({ where, data: { gamesCursorQid: null,
\* gamesCursorUpdatedAt: null, gamesIngestedAt: null } })
ResetCursor ==
  /\ pc = "reset"
  /\ gamesCursorQid' = [p \in Platforms |->
                          IF p \in whereSel THEN NullQid ELSE gamesCursorQid[p]]
  /\ gamesIngestedAt' = [p \in Platforms |->
                           IF p \in whereSel THEN FALSE ELSE gamesIngestedAt[p]]
  /\ cursorLog' = [p \in Platforms |->
                     IF p \in whereSel THEN << >> ELSE cursorLog[p]]
  /\ rosterChanged' = [p \in Platforms |->
                         IF p \in whereSel THEN FALSE ELSE rosterChanged[p]]
  /\ pc' = "find"
  /\ UNCHANGED << roster, edits, games, links, whereSel, loopVars, rows, txVars,
                  crashed, resumedCommit, ingested >>

\* for (const platform of platforms) { ingestPlatform(platform) }: enter
\* ingestPlatform for the head of ps (let cursor = platform.gamesCursorQid and
\* issue the first query), or finish main when no platform is left.
EnterNext(ps) ==
  IF Len(ps) = 0
  THEN /\ pc' = "done"
       /\ todo' = << >>
       /\ platform' = NoPlatform
       /\ cursor' = NullQid
  ELSE /\ pc' = "query"
       /\ todo' = Tail(ps)
       /\ platform' = Head(ps)
       /\ cursor' = Head(ps).gamesCursorQid

\* main: prisma.platform.findMany({ where, orderBy, take: maxPlatforms });
\* take = 0 stands for no limit (platformLimit and FETCH_PLATFORM_LIMIT unset).
FindPlatforms(take) ==
  /\ pc = "find"
  /\ LET all == FindMany(whereSel)
         ps == IF take = 0 \/ take >= Len(all) THEN all
               ELSE SubSeq(all, 1, take)
     IN EnterNext(ps)
  /\ whereSel' = {}
  /\ UNCHANGED << upstreamVars, storeVars, rows, txVars, crashed,
                  resumedCommit, ingested, cursorLog >>

\* ingestPlatform: the response of wdqs(query) arrives and is parsed.
QueryPage ==
  /\ pc = "query"
  /\ rows' = ParseRosterRows(
               BuildGamesQuery(platform.qid, cursor, PageSize))
  /\ pc' = IF Len(rows') = 0 THEN "emptyUpdate" ELSE "txGames"
  /\ UNCHANGED << upstreamVars, storeVars, whereSel, loopVars, txVars, crashed,
                  resumedCommit, ingested, cursorLog >>

\* ingestPlatform, empty page: platform.update({ gamesIngestedAt: new Date(),
\* gamesCursorUpdatedAt: new Date() }); break.
EmptyPageUpdate ==
  /\ pc = "emptyUpdate"
  /\ gamesIngestedAt' = [gamesIngestedAt EXCEPT ![platform.qid] = TRUE]
  /\ ingested' = ingested \cup {platform.qid}
  /\ EnterNext(todo)
  /\ rows' = << >>
  /\ UNCHANGED << upstreamVars, games, links, gamesCursorQid, whereSel, txVars,
                  crashed, resumedCommit, cursorLog >>

\* Inside $transaction: tx.game.createMany({ data: gamesData, skipDuplicates }).
TxCreateGames ==
  /\ pc = "txGames"
  /\ txGames' = CreateManySkipDuplicates(games,
                   { rows[i] : i \in DOMAIN rows })
  /\ pc' = "txLinks"
  /\ UNCHANGED << upstreamVars, storeVars, whereSel, loopVars, rows, txLinks,
                  crashed, resumedCommit, ingested, cursorLog >>

\* Inside $transaction: tx.gamePlatform.createMany({ data: linksData, ... }).
TxCreateLinks ==
  /\ pc = "txLinks"
  /\ txLinks' = CreateManySkipDuplicates(links,
                   { [gameQid |-> rows[i], platformQid |-> platform.qid] :
                       i \in DOMAIN rows })
  /\ pc' = "txUpdate"
  /\ UNCHANGED << upstreamVars, storeVars, whereSel, loopVars, rows, txGames,
                  crashed, resumedCommit, ingested, cursorLog >>

\* The table after the transaction that inserted `inserted` commits.
Committed(table, inserted) == table (+) BagOfSet(inserted)

\* The marker left null whatever the page.
IngestedAtNever(rs) == FALSE

\* gamesIngestedAt: rows.length < CONFIG.wdqsPageSize ? now : null
IngestedAtAfterPage(rs) == Len(rs) < PageSize

\* Inside $transaction: tx.platform.update({ gamesCursorQid: lastQid,
\* gamesIngestedAt: rows.length < pageSize ? now : null }); the transaction
\* commits; then cursor = lastQid and the loop breaks after a short page.
TxUpdatePlatformCommit ==
  /\ pc = "txUpdate"
  /\ LET lastQid == LastQid(rows, cursor)
     IN /\ games' = Committed(games, txGames)
        /\ links' = Committed(links, txLinks)
        /\ gamesCursorQid' = [gamesCursorQid EXCEPT ![platform.qid] = lastQid]
        /\ gamesIngestedAt' = [gamesIngestedAt EXCEPT
                                 ![platform.qid] = IngestedAtAfterPage(rows)]
        /\ cursorLog' = [cursorLog EXCEPT
                           ![platform.qid] = Append(@, lastQid)]
        /\ IF Len(rows) < PageSize
           THEN /\ EnterNext(todo)
                /\ ingested' = ingested \cup {platform.qid}
           ELSE /\ pc' = "query"
                /\ cursor' = lastQid
                /\ UNCHANGED << todo, platform, ingested >>
  /\ resumedCommit' = (resumedCommit \/
                         (/\ crashed
                          /\ platform.gamesCursorQid # NullQid
                          /\ ~gamesIngestedAt[platform.qid]))
  /\ rows' = << >>
  /\ txGames' = {}
  /\ txLinks' = {}
  /\ UNCHANGED << upstreamVars, whereSel, crashed >>

\* The process is killed (or exits on a thrown error) at any suspension
\* point; an open transaction is rolled back, all locals are lost.
Crash ==
  /\ pc \notin {"idle", "done"}
  /\ crashed' = TRUE
  /\ pc' = "idle"
  /\ whereSel' = {}
  /\ todo' = << >>
  /\ platform' = NoPlatform
  /\ cursor' = NullQid
  /\ rows' = << >>
  /\ txGames' = {}
  /\ txLinks' = {}
  /\ ingested' = {}
  /\ UNCHANGED << upstreamVars, storeVars, resumedCommit, cursorLog >>

\* The upstream knowledge graph is edited between two steps of the crawl:
\* each game of qs gains or loses platform p.
UpstreamEdit(p, qs) ==
  /\ edits < MaxUpstreamEdits
  /\ edits' = edits + 1
  /\ roster' = [roster EXCEPT ![p] = (@ \ qs) \cup (qs \ @)]
  /\ rosterChanged' = [rosterChanged EXCEPT ![p] = TRUE]
  /\ UNCHANGED << storeVars, pc, whereSel, loopVars, rows, txVars, crashed,
                  resumedCommit, ingested, cursorLog >>

(***************************************************************************)
(* Revision-aware cache (WikiClient.getOrFetchWikiPage and                 *)
(* WikiClient.getOrFetchWikidataEntity): state                             *)
(***************************************************************************)

\* Identity keys: one (site, title) of WikiPageCache, one qid of
\* WikidataEntityCache.
PageKeys == { "enwiki:Doom" }
EntityKeys == { "Q42" }
CacheKeys == PageKeys \cup EntityKeys

\* Concurrent callers of getOrFetch (ETL processes sharing the database).
Callers == { "c1", "c2" }

\* The payload the upstream serves for revision r is identified by r; the
\* entity API serves a stub ({ id, missing: "" }) for a deleted entity.
MissingStub == 0

VARIABLES
  upstream,     \* upstream[k] = [rev, missing]: latest revision id (0: never
                \* created) and whether the page or entity is deleted
  cache,        \* the two cache tables: a bag of rows [key, marker, payload]
  cpc,          \* cpc[c]: position of caller c inside getOrFetch
  callKey,      \* callKey[c]: identity key the call of c is about
  probed,       \* probed[c]: latestRevid / lastrevid returned by the probe
  cached,       \* cached[c]: result of findUnique (NoRow when null)
  fetched,      \* fetched[c]: [revid, payload] of the full-payload response
  result,       \* result[c]: value returned by the call
  reqLog,       \* history: requests and writes issued by the current call
  revEdits      \* history: number of upstream edits and deletions so far

cacheVars == << upstream, cache, cpc, callKey, probed, cached, fetched,
                result, reqLog, revEdits >>

NoRow == [key |-> Null, marker |-> 0, payload |-> MissingStub]
NoFetch == [revid |-> 0, payload |-> MissingStub]
NoResult == [source |-> Null, marker |-> 0, payload |-> MissingStub]

InitCache ==
  /\ upstream \in [CacheKeys -> { [rev |-> r, missing |-> (r = 0)] : r \in 0..1 }]
  /\ revEdits = 0
  /\ cache = EmptyBag
  /\ cpc = [c \in Callers |-> "idle"]
  /\ callKey = [c \in Callers |-> Null]
  /\ probed = [c \in Callers |-> 0]
  /\ cached = [c \in Callers |-> NoRow]
  /\ fetched = [c \in Callers |-> NoFetch]
  /\ result = [c \in Callers |-> NoResult]
  /\ reqLog = [c \in Callers |-> << >>]

\* The rows of the table holding identity key k.
RowsOf(table, k) == { r \in DOMAIN table : r.key = k }

\* A lookup that never finds the row.
FindNone(table, k) == NoRow

\* prisma.<cache>.findUnique({ where: <identity key> })
FindUnique(table, k) ==
  IF RowsOf(table, k) = {} THEN NoRow ELSE CHOOSE r \in RowsOf(table, k) : TRUE

\* A write that always inserts a new row (no unique key).
InsertRow(table, row) == table (+) SetToBag({row})

\* prisma.<cache>.upsert({ where: <identity key>, update, create }): the row
\* of the key is updated in place, or created when there is none.
Upsert(table, row) ==
  [r \in { x \in DOMAIN table : x.key # row.key } |-> table[r]]
    (+) SetToBag({row})

\* The marker a call that always stored the probed marker would write.
MarkerAlwaysProbed(k, probedRev, contentRevid) == probedRev

\* The marker written with the fetched payload: BigInt(contentRevid) of the
\* content response for a page, lastrevidBigInt of the probe for an entity.
StoredMarker(k, probedRev, contentRevid) ==
  IF k \in PageKeys THEN contentRevid ELSE probedRev

\* getOrFetch is called for key k: the probe request is issued.
StartCall(c, k) ==
  /\ cpc[c] \in {"idle", "returned", "thrown"}
  /\ cpc' = [cpc EXCEPT ![c] = "probe"]
  /\ callKey' = [callKey EXCEPT ![c] = k]
  /\ probed' = [probed EXCEPT ![c] = 0]
  /\ cached' = [cached EXCEPT ![c] = NoRow]
  /\ fetched' = [fetched EXCEPT ![c] = NoFetch]
  /\ result' = [result EXCEPT ![c] = NoResult]
  /\ reqLog' = [reqLog EXCEPT ![c] = << "probe" >>]
  /\ UNCHANGED << upstream, cache, revEdits >>

\* The probe response arrives: page missing / no revisions, or entity
\* missing / no lastrevid, throws; otherwise the marker is kept.
ProbeResponse(c) ==
  /\ cpc[c] = "probe"
  /\ LET u == upstream[callKey[c]]
     IN IF u.missing \/ u.rev = 0
        THEN /\ cpc' = [cpc EXCEPT ![c] = "thrown"]
             /\ UNCHANGED probed
        ELSE /\ cpc' = [cpc EXCEPT ![c] = "read"]
             /\ probed' = [probed EXCEPT ![c] = u.rev]
  /\ UNCHANGED << upstream, cache, callKey, cached, fetched, result, reqLog,
                  revEdits >>

\* findUnique returns; on equal markers the call returns the stored row as a
\* cache hit, otherwise the full-payload request is issued.
ReadCache(c) ==
  /\ cpc[c] = "read"
  /\ LET row == FindUnique(cache, callKey[c])
     IN /\ cached' = [cached EXCEPT ![c] = row]
        /\ IF row # NoRow /\ row.marker = probed[c]
           THEN /\ cpc' = [cpc EXCEPT ![c] = "returned"]
                /\ result' = [result EXCEPT ![c] =
                     [source |-> "cache-hit", marker |-> row.marker,
                      payload |-> row.payload]]
                /\ UNCHANGED reqLog
           ELSE /\ cpc' = [cpc EXCEPT ![c] = "full"]
                /\ reqLog' = [reqLog EXCEPT ![c] = Append(@, "full")]
                /\ UNCHANGED result
  /\ UNCHANGED << upstream, cache, callKey, probed, fetched, revEdits >>

\* The full-payload response arrives: a page without revision throws, an
\* entity absent from the response throws (a deleted entity is present as a
\* stub); otherwise the payload is kept for the upsert.
FullResponse(c) ==
  /\ cpc[c] = "full"
  /\ LET k == callKey[c]
         u == upstream[k]
     IN IF k \in PageKeys /\ u.missing
        THEN /\ cpc' = [cpc EXCEPT ![c] = "thrown"]
             /\ UNCHANGED fetched
        ELSE /\ cpc' = [cpc EXCEPT ![c] = "upsert"]
             /\ fetched' = [fetched EXCEPT ![c] =
                  [revid |-> u.rev,
                   payload |-> IF u.missing THEN MissingStub ELSE u.rev]]
  /\ UNCHANGED << upstream, cache, callKey, probed, cached, result, reqLog,
                  revEdits >>

\* The upsert is executed and the call returns the fetched payload.
UpsertAndReturn(c) ==
  /\ cpc[c] = "upsert"
  /\ LET k == callKey[c]
         marker == StoredMarker(k, probed[c], fetched[c].revid)
         row == [key |-> k, marker |-> marker, payload |-> fetched[c].payload]
     IN /\ cache' = Upsert(cache, row)
        /\ result' = [result EXCEPT ![c] =
             [source |-> "fetched", marker |-> marker,
              payload |-> fetched[c].payload]]
  /\ reqLog' = [reqLog EXCEPT ![c] = Append(@, "write")]
  /\ cpc' = [cpc EXCEPT ![c] = "returned"]
  /\ UNCHANGED << upstream, callKey, probed, cached, fetched, revEdits >>

\* fetchJson gives up (retries exhausted, non-retryable status, timeout) or
\* the database call fails: the call throws and writes nothing.
CallThrows(c) ==
  /\ cpc[c] \in {"probe", "read", "full", "upsert"}
  /\ cpc' = [cpc EXCEPT ![c] = "thrown"]
  /\ UNCHANGED << upstream, cache, callKey, probed, cached, fetched, result,
                  reqLog, revEdits >>

\* The upstream page or entity is edited (or created, or restored).
UpstreamRevise(k) ==
  /\ revEdits < MaxUpstreamEdits
  /\ revEdits' = revEdits + 1
  /\ upstream' = [upstream EXCEPT
                    ![k] = [rev |-> @.rev + 1, missing |-> FALSE]]
  /\ UNCHANGED << cache, cpc, callKey, probed, cached, fetched, result,
                  reqLog >>

\* The upstream page or entity is deleted.
UpstreamDelete(k) ==
  /\ revEdits < MaxUpstreamEdits
  /\ ~upstream[k].missing
  /\ revEdits' = revEdits + 1
  /\ upstream' = [upstream EXCEPT ![k].missing = TRUE]
  /\ UNCHANGED << cache, cpc, callKey, probed, cached, fetched, result,
                  reqLog >>

(***************************************************************************)
(* Claim normalization and batch writer (hydrateGamesFromClaims) and       *)
(* entity enrichment (enrichGames): claim documents                        *)
(***************************************************************************)

\* Absent values of the store and of parsed values: a null number (no year,
\* month, day or precision is 0) and a null date.
NoNumber == 0
NoDate == << >>

\* The subsequence of s at the indices in I, in ascending order.
SubSeqByIdx(s, I) ==
  [k \in 1..Cardinality(I) |->
     s[CHOOSE i \in I : Cardinality({ j \in I : j < i }) = k - 1]]

RECURSIVE FlattenSeq(_)
\* Concatenation of a sequence of sequences.
FlattenSeq(ss) == IF ss = << >> THEN << >> ELSE Head(ss) \o FlattenSeq(Tail(ss))

\* A statement of a claim document: claim id (Null when absent), rank,
\* snak type and main value.
Stmt(id, rank, value) ==
  [id |-> id, rank |-> rank, snaktype |-> "value", value |-> value]

\* A statement whose main snak has no value.
NoValueStmt(id, rank, filler) ==
  [id |-> id, rank |-> rank, snaktype |-> "novalue", value |-> filler]

\* A time statement: the time string is modelled by the numbers its year,
\* month and day fields carry ("1998-00-00" carries month 0 and day 0), with
\* its precision and the platform qualifier.
TimeStmt(id, rank, y, m, d, precision, platformQid) ==
  [id |-> id, rank |-> rank, snaktype |-> "value",
   value |-> [y |-> y, m |-> m, d |-> d, precision |-> precision],
   platformQid |-> platformQid]

\* Platform QIDs named by the documents; the Platform table holds some.
PlatformQids == { "Q_PS", "Q_PC" }

\* A document with statements for every target, naming a platform and a
\* game that may not exist in the store.
DocFull ==
  [ P400 |-> << Stmt("s1", "normal", "Q_PS"), Stmt("s2", "normal", "Q_PC") >>,
    P155 |-> << Stmt("s3", "normal", <<2>>), Stmt("s4", "normal", <<1, 0>>) >>,
    P136 |-> << Stmt("s5", "normal", "Q_RPG") >>,
    P178 |-> << Stmt("s6", "normal", "Q_DEV") >>,
    P577 |-> << TimeStmt("s7", "normal", 1999, 11, 23, 11, Null),
                TimeStmt("s8", "preferred", 1998, 0, 0, 9, "Q_PC") >>,
    P18 |-> << Stmt("s9", "normal", "Doom.png"),
               Stmt("s10", "preferred", "Box.jpg") >>,
    P856 |-> << Stmt("s11", "normal", "https://doom") >>,
    P1733 |-> << Stmt("s12", "normal", "2280") >>,
    P1651 |-> << Stmt("s13", "normal", "yt1") >>,
    P852 |-> << Stmt("s14", "normal", "Q_ESRB_M") >>,
    P279 |-> << Stmt("s15", "normal", "Q_CLASS") >>,
    P444 |-> << Stmt("s16", "normal", 90), Stmt("s17", "normal", 70) >> ]

\* The same entity after statements were removed upstream (and the release
\* date re-ranked).
DocTrimmed ==
  [ P400 |-> << Stmt("s1", "normal", "Q_PS") >>,
    P577 |-> << TimeStmt("s7", "normal", 1999, 11, 23, 11, Null) >>,
    P18 |-> << Stmt("s9", "normal", "Doom.png") >> ]

\* A document with repeated values, statements without claim id, a snak
\* without value and a release date qualified by a platform that may not
\* exist in the store.
DocOdd ==
  [ P400 |-> << Stmt("t1", "normal", "Q_PC"), Stmt("t2", "preferred", "Q_PC"),
                NoValueStmt("t3", "normal", "") >>,
    P155 |-> << Stmt("t4", "normal", <<1>>) >>,
    P577 |-> << TimeStmt(Null, "normal", 2001, 5, 0, 10, "Q_PC"),
                TimeStmt(Null, "normal", 2001, 5, 0, 10, Null),
                TimeStmt("t5", "deprecated", 2000, 1, 2, 11, Null) >>,
    P18 |-> << Stmt("t6", "normal", "Odd.png"), Stmt("t7", "normal", "Odd.png") >> ]

\* A document whose string values repeat in another case.
DocCase ==
  [ P400 |-> << Stmt("k1", "normal", "Q_PC"), Stmt("k2", "normal", "Q_PC") >>,
    P1651 |-> << Stmt("k3", "normal", "yt1"), Stmt("k4", "preferred", "YT1") >>,
    P856 |-> << Stmt("k5", "normal", "HTTPS://DOOM"),
                Stmt("k6", "normal", "https://doom") >>,
    P18 |-> << Stmt("k7", "normal", "Doom.png") >> ]

\* The empty claims object {}.
DocEmpty == [ P31 |-> << >> ]

\* Prisma.JsonNull: Game.claimsJson of a game never enriched or whose entity
\* is missing upstream.
JsonNull == [ jsonNull |-> << >> ]

\* asClaimsObject(value) is an object (not null).
IsClaimsObject(value) == value # JsonNull

\* getPropertyStatements: claims[propertyId] when it is an array, else [].
GetPropertyStatements(claims, propertyId) ==
  IF claims = JsonNull THEN << >>
  ELSE IF propertyId \in DOMAIN claims THEN claims[propertyId] ELSE << >>

\* getRankScore
GetRankScore(rank) ==
  IF rank = "preferred" THEN 2 ELSE IF rank = "normal" THEN 1 ELSE 0

\* toStatementRank
ToStatementRank(rank) ==
  IF rank \in {"preferred", "normal", "deprecated"} THEN rank ELSE Null

\* The statements whose getMainSnakDataValue / getClaimValue is a value.
WithValue(statements) ==
  SelectSeq(statements, LAMBDA st : st.snaktype = "value")

\* pickBestValue: [...values].sort(compareRanked)[0]; the sort is stable, so
\* the result is the first value among those of the highest rank score.
PickBestValue(values) ==
  IF values = << >> THEN Null
  ELSE LET best == CHOOSE i \in DOMAIN values :
              /\ \A j \in DOMAIN values :
                   values[j].rankScore <= values[i].rankScore
              /\ \A j \in DOMAIN values :
                   values[j].rankScore = values[i].rankScore => i <= j
       IN values[best]

\* Of statements with values, the first statement of each distinct value.
FirstOfValue(sts) ==
  SubSeqByIdx(sts, { i \in DOMAIN sts :
                       \A j \in DOMAIN sts : j < i => sts[j].value # sts[i].value })

\* String.toLowerCase on the strings of the model that hold capitals.
ToLowerCase(str) ==
  CASE str = "YT1" -> "yt1"
    [] str = "Doom.png" -> "doom.png"
    [] str = "Box.jpg" -> "box.jpg"
    [] str = "Odd.png" -> "odd.png"
    [] str = "HTTPS://DOOM" -> "https://doom"
    [] OTHER -> str

\* extractStringValues: the string values of the statements that have one,
\* the first statement of each value.toLowerCase(), with rank score; the
\* value keeps its case.  (Model strings are trimmed.)
ExtractStringValues(statements) ==
  LET valued == WithValue(statements)
      sts == SubSeqByIdx(valued,
               { i \in DOMAIN valued :
                   \A j \in DOMAIN valued :
                     j < i => ToLowerCase(valued[j].value)
                                # ToLowerCase(valued[i].value) })
  IN [k \in DOMAIN sts |->
        [value |-> sts[k].value, rankScore |-> GetRankScore(sts[k].rank)]]

\* extractItemIds: the item ids of the statements that have one, each
\* distinct id once (its first statement), with rank score.
ExtractValues(statements) ==
  LET sts == FirstOfValue(WithValue(statements))
  IN [k \in DOMAIN sts |->
        [value |-> sts[k].value, rankScore |-> GetRankScore(sts[k].rank)]]

\* parseWikidataDateParts: a year that is not positive gives no parts; a
\* month outside 1..12 or a day outside 1..31 is null.
ParseWikidataDateParts(time) ==
  IF time.y <= 0 THEN [year |-> NoNumber, month |-> NoNumber, day |-> NoNumber]
  ELSE [year |-> time.y,
        month |-> IF time.m >= 1 /\ time.m <= 12 THEN time.m ELSE NoNumber,
        day |-> IF time.d >= 1 /\ time.d <= 31 THEN time.d ELSE NoNumber]

\* extractTimeValues, one statement with a parsable time: its TimeValue.
TimeValue(st, parts) ==
  [claimId |-> st.id, rankScore |-> GetRankScore(st.rank),
   rank |-> ToStatementRank(st.rank),
   time |-> << st.value.y, st.value.m, st.value.d >>,
   precision |-> st.value.precision,
   year |-> parts.year, month |-> parts.month, day |-> parts.day,
   platformQid |-> st.platformQid]

\* extractTimeValues: one TimeValue per statement with a parsable time.
ExtractTimeValues(statements) ==
  LET usable == SelectSeq(WithValue(statements),
                  LAMBDA st : ParseWikidataDateParts(st.value).year # NoNumber)
  IN [k \in DOMAIN usable |->
        TimeValue(usable[k], ParseWikidataDateParts(usable[k].value))]

\* toReleaseDateCategory that classifies by the presence of month and day
\* and ignores the precision.
CategoryFromPartsOnly(precision, month, day) ==
  IF month # NoNumber /\ day # NoNumber THEN "YYYYMMMMDD"
  ELSE IF month # NoNumber THEN "YYYYMMMM"
  ELSE "YYYY"

\* toReleaseDateCategory
ToReleaseDateCategory(precision, month, day) ==
  IF precision = 10 /\ month # NoNumber THEN "YYYYMMMM"
  ELSE IF precision = 9 THEN "YYYY"
  ELSE IF precision # NoNumber /\ precision < 9 THEN "YYYY"
  ELSE IF month # NoNumber /\ day # NoNumber THEN "YYYYMMMMDD"
  ELSE IF month # NoNumber THEN "YYYYMMMM"
  ELSE "YYYY"

\* toUtcDate: Date.UTC(year, (month ?? 1) - 1, day ?? 1)
ToUtcDate(year, month, day) ==
  << year, IF month = NoNumber THEN 1 ELSE month,
     IF day = NoNumber THEN 1 ELSE day >>

\* buildReleaseDateHuman: "YYYY-MM-DD", "YYYY-MM" or "YYYY" as the sequence
\* of the numbers printed.
BuildReleaseDateHuman(year, month, day, category) ==
  IF category = "YYYYMMMMDD" /\ month # NoNumber /\ day # NoNumber
  THEN << year, month, day >>
  ELSE IF category = "YYYYMMMM" /\ month # NoNumber
  THEN << year, month >>
  ELSE << year >>

\* shouldApplyScalarUpdate (nullValue is the null of the field's type).
ShouldApplyScalarUpdate(existingValue, nullValue, nextValue, rankScore) ==
  IF existingValue = nullValue THEN TRUE
  ELSE rankScore >= 2 /\ existingValue # nextValue

\* The key parseBatch passes to dedupeRows for each relation, and the Map
\* keys of extractReleaseDateClaims and extractQuantityClaims.
DedupeKey(table, row) ==
  CASE table = "gamePlatform" -> << row.gameQid, row.platformQid >>
    [] table = "gameTag" -> << row.gameQid, row.tagId >>
    [] table = "gameCompany" -> << row.gameQid, row.companyQid, row.role >>
    [] table = "gameRelation" ->
         << row.fromGameQid, row.toGameQid, row.kind >>
    [] table = "releaseDate" ->
         << row.gameQid, row.claimId,
            IF row.claimId = Null THEN row.human ELSE << >> >>
    [] table = "website" -> << row.gameQid, row.url >>
    [] table = "externalGame" -> << row.gameQid, row.category, row.uid >>
    [] table = "gameImage" -> << row.gameQid, row.kind, row.url >>
    [] table = "gameVideo" -> << row.gameQid, row.provider, row.videoId >>
    [] table = "gameAgeRating" ->
         << row.gameQid, row.organization, row.rating >>
    [] table = "releaseDateClaim" ->
         IF row.claimId = Null THEN << "time", row.time >>
         ELSE << "id", row.claimId >>
    [] table = "quantityClaim" ->
         IF row.claimId = Null THEN << "amount", row.amount >>
         ELSE << "id", row.claimId >>

\* dedupeRows that returns the rows as pushed.
RowsAsPushed(table, rs) == rs

\* dedupeRows: [...new Map(rows.map(row => [keyFor(row), row])).values()]:
\* one row per key, at the position of the key's first row, holding the
\* key's last row.
DedupeRows(table, rs) ==
  LET same(i, j) == DedupeKey(table, rs[i]) = DedupeKey(table, rs[j])
      firsts == { i \in DOMAIN rs : \A j \in DOMAIN rs : j < i => ~same(i, j) }
      picked == [i \in DOMAIN rs |->
                   rs[CHOOSE j \in DOMAIN rs :
                        /\ same(i, j)
                        /\ \A l \in DOMAIN rs : same(i, l) => l <= j]]
  IN SubSeqByIdx(picked, firsts)

(***************************************************************************)
(* Claim normalization: the property registry and parseBatch                *)
(***************************************************************************)

RegistryEntry(propertyId, status, target, disc) ==
  [propertyId |-> propertyId, status |-> status, target |-> target,
   disc |-> disc, source |-> << "wikidata", propertyId >>]

\* PROPERTY_REGISTRY: one entry of each target and status (disc is the
\* entry's tagKind, companyRole, relationKind, websiteCategory,
\* externalCategory, videoProvider or ageRatingOrganization).
PropertyRegistry ==
  << RegistryEntry("P400", "core", "gamePlatform", Null),
     RegistryEntry("P136", "core", "gameTag", "GENRE"),
     RegistryEntry("P155", "common", "gameRelation", "FOLLOWS"),
     RegistryEntry("P577", "core", "game.releaseDate", Null),
     RegistryEntry("P178", "core", "gameCompany", "DEVELOPER"),
     RegistryEntry("P856", "core", "website", "OFFICIAL"),
     RegistryEntry("P18", "core", "game.image", Null),
     RegistryEntry("P852", "common", "gameAgeRating", "ESRB"),
     RegistryEntry("P1733", "common", "externalGame", "STEAM"),
     RegistryEntry("P1651", "niche", "gameVideo", "YOUTUBE"),
     RegistryEntry("P279", "ignore", "game.instanceOf", Null) >>

\* getHydratableRegistryEntries that keeps the niche entries whatever the
\* option.
HydratableWithNiche(includeNiche) ==
  SelectSeq(PropertyRegistry, LAMBDA entry : entry.status # "ignore")

\* getHydratableRegistryEntries
GetHydratableRegistryEntries(includeNiche) ==
  SelectSeq(PropertyRegistry,
            LAMBDA entry : /\ entry.status # "ignore"
                           /\ includeNiche \/ entry.status # "niche")

\* The derived relations applyBatch rewrites (Prisma model names).
HydrateTables ==
  { "gamePlatform", "gameTag", "gameCompany", "gameRelation", "releaseDate",
    "website", "externalGame", "gameImage", "gameVideo", "gameAgeRating" }

\* The registry target whose rows go to a table.
TargetOf(table) ==
  CASE table = "releaseDate" -> "game.releaseDate"
    [] table = "gameImage" -> "game.image"
    [] OTHER -> table

\* parseBatch, one statement value of a set-valued target: the row pushed.
ItemRow(table, gameQid, entry, item) ==
  CASE table = "gamePlatform" ->
         [gameQid |-> gameQid, platformQid |-> item.value,
          source |-> entry.source]
    [] table = "gameTag" -> [gameQid |-> gameQid, tagId |-> item.value]
    [] table = "gameCompany" ->
         [gameQid |-> gameQid, companyQid |-> item.value, role |-> entry.disc]
    [] table = "gameRelation" ->
         [fromGameQid |-> gameQid, toGameQid |-> item.value,
          kind |-> entry.disc, source |-> entry.source]
    [] table = "website" ->
         [gameQid |-> gameQid, category |-> entry.disc, url |-> item.value,
          source |-> entry.source, claimId |-> Null]
    [] table = "externalGame" ->
         [gameQid |-> gameQid, category |-> entry.disc, uid |-> item.value,
          url |-> IF entry.propertyId = "P1733"
                  THEN << "https://store.steampowered.com/app/", item.value >>
                  ELSE IF entry.propertyId = "P2725"
                  THEN << "https://www.gog.com/game/", item.value >>
                  ELSE << >>,
          source |-> entry.source, claimId |-> Null]
    [] table = "gameVideo" ->
         [gameQid |-> gameQid, provider |-> entry.disc, videoId |-> item.value,
          source |-> entry.source, claimId |-> Null]
    [] table = "gameAgeRating" ->
         [gameQid |-> gameQid, organization |-> entry.disc,
          rating |-> item.value, source |-> entry.source]

\* parseBatch, one TimeValue: the ReleaseDate row pushed.
ReleaseDateRow(gameQid, entry, tv) ==
  LET category == ToReleaseDateCategory(tv.precision, tv.month, tv.day)
  IN [gameQid |-> gameQid, category |-> category,
      date |-> ToUtcDate(tv.year, tv.month, tv.day),
      year |-> tv.year, month |-> tv.month, day |-> tv.day,
      precision |-> tv.precision, rank |-> tv.rank,
      platformQid |-> tv.platformQid,
      human |-> BuildReleaseDateHuman(tv.year, tv.month, tv.day, category),
      source |-> entry.source, claimId |-> tv.claimId]

\* commonsFileUrl: the Special:FilePath URL of a Commons file name.
CommonsFileUrl(filename) ==
  << "https://commons.wikimedia.org/wiki/Special:FilePath/", filename >>

\* parseBatch, one image value: COVER for the best image, else OTHER.
ImageRow(gameQid, entry, imageValue, bestImage) ==
  [gameQid |-> gameQid,
   kind |-> IF imageValue.value = bestImage.value THEN "COVER" ELSE "OTHER",
   url |-> CommonsFileUrl(imageValue.value), source |-> entry.source,
   imageId |-> imageValue.value]

\* parseBatch: the rows one game pushes for one registry entry of a table.
EntryRows(table, game, entry) ==
  LET statements == GetPropertyStatements(game.claimsJson, entry.propertyId)
  IN CASE table = "releaseDate" ->
            LET times == ExtractTimeValues(statements)
            IN [k \in DOMAIN times |-> ReleaseDateRow(game.qid, entry, times[k])]
       [] table = "gameImage" ->
            LET imageValues == ExtractStringValues(statements)
            IN [k \in DOMAIN imageValues |->
                  ImageRow(game.qid, entry, imageValues[k],
                           PickBestValue(imageValues))]
       [] table \in {"gameTag", "gameCompany", "gameRelation", "externalGame",
                     "gameVideo", "gameAgeRating"} /\ entry.disc = Null ->
            << >>
       [] table \in {"website", "externalGame", "gameVideo"} ->
            LET strings == ExtractStringValues(statements)
            IN [k \in DOMAIN strings |->
                  ItemRow(table, game.qid, entry, strings[k])]
       [] OTHER ->
            LET items == ExtractValues(statements)
            IN [k \in DOMAIN items |-> ItemRow(table, game.qid, entry, items[k])]

\* parseBatch: the rows of one table pushed for all games, before dedupeRows.
PushedRows(table, gs, entries) ==
  FlattenSeq(
    [gi \in DOMAIN gs |->
       IF ~IsClaimsObject(gs[gi].claimsJson) THEN << >>
       ELSE FlattenSeq(
              [ei \in DOMAIN entries |->
                 IF entries[ei].target = TargetOf(table)
                 THEN EntryRows(table, gs[gi], entries[ei])
                 ELSE << >>])])

\* parseBatch, for (const entry of byTarget.gameReleaseDate / gameImage):
\* the statements of the entry of a scalar target; the registry holds one
\* entry of each scalar target (P577, P18), the entries may hold none.
StatementsOfTarget(claims, entries, target) ==
  LET es == SelectSeq(entries, LAMBDA entry : entry.target = target)
  IN IF es = << >> THEN << >>
     ELSE GetPropertyStatements(claims, es[1].propertyId)

\* parseBatch: the scalar patch of one game from its release dates and
\* images (the fields it sets).
ScalarPatchOf(game, times, images) ==
  LET setYear == /\ times # << >>
                 /\ ShouldApplyScalarUpdate(game.releaseYear, NoNumber,
                      PickBestValue(times).year, PickBestValue(times).rankScore)
      setFirst == /\ times # << >>
                  /\ ShouldApplyScalarUpdate(game.firstReleaseAt, NoDate,
                       ToUtcDate(PickBestValue(times).year,
                                 PickBestValue(times).month,
                                 PickBestValue(times).day),
                       PickBestValue(times).rankScore)
      setImage == /\ images # << >>
                  /\ ShouldApplyScalarUpdate(game.imageCommons, Null,
                       PickBestValue(images).value,
                       PickBestValue(images).rankScore)
  IN [f \in (IF setYear THEN {"releaseYear"} ELSE {})
              \cup (IF setFirst THEN {"firstReleaseAt"} ELSE {})
              \cup (IF setImage THEN {"imageCommons"} ELSE {}) |->
        CASE f = "releaseYear" -> PickBestValue(times).year
          [] f = "firstReleaseAt" ->
               ToUtcDate(PickBestValue(times).year, PickBestValue(times).month,
                         PickBestValue(times).day)
          [] f = "imageCommons" -> PickBestValue(images).value]

\* parseBatch: the scalar patch of one game.
ScalarPatch(game, entries) ==
  ScalarPatchOf(game,
    ExtractTimeValues(
      StatementsOfTarget(game.claimsJson, entries, "game.releaseDate")),
    ExtractStringValues(
      StatementsOfTarget(game.claimsJson, entries, "game.image")))

\* parseBatch: the BatchRows of a batch of candidate games: the scalar
\* updates of the games with a patch, and the deduplicated rows of each
\* relation (tagsToCreate and companiesToCreate are the tags and companies
\* of the gameTag and gameCompany rows).
ParseBatch(gs, entries) ==
  [ scalarUpdates |->
      SelectSeq([gi \in DOMAIN gs |->
                   [qid |-> gs[gi].qid, data |-> ScalarPatch(gs[gi], entries)]],
                LAMBDA update : DOMAIN update.data # {}),
    derivedRows |->
      [t \in HydrateTables |-> DedupeRows(t, PushedRows(t, gs, entries))] ]

(***************************************************************************)
(* Batch writer and enrichment: the store and the batch process            *)
(***************************************************************************)

\* Bound of the model: --batch-size / ENRICH_BATCH_SIZE scaled down.
BatchSize == 1

Max2(a, b) == IF a > b THEN a ELSE b
Min2(a, b) == IF a < b THEN a ELSE b

\* withDbRetry(run, label, retries = 4)
DbRetries == 4

\* withDbRetry: let backoffMs = 200
DbBackoffMs == 200

\* withDbRetry: backoffMs = Math.min(backoffMs * 2, 3000)
DbBackoffCapMs == 3000

\* The codes getNestedCode finds on the errors a transaction throws: a
\* serialization failure (a deadlock, 40P01, takes the same branch) and a
\* foreign-key violation.
DbErrors == { "40001", "23503" }

\* isRetriableDbError
IsRetriableDbError(code) == code \in { "40P01", "40001" }

\* The derived relations enrichBatch rewrites.
EnrichTables ==
  { "gameTag", "gameCompany", "releaseDate", "website", "gameImage",
    "alternativeName", "externalGame", "gameVideo", "gameScore" }

AllTables == HydrateTables \cup EnrichTables

\* An upstream entity that is missing (deleted): { id, missing: "" }.
MissingEntity == [ missing |-> "" ]

VARIABLES
  entityDoc,   \* upstream: entityDoc[q] = claims of entity q, or MissingEntity
  db,          \* committed store: [game, platform, tag, company, derived]
  txDb,        \* working state of the open transaction: [derived, tag, company]
  job,         \* the batch process: position, options, cursor, batch, parse
  applied,     \* history: applied[q] = the inputs of the last committed
               \* applyBatch of game q (document, options, lookups), reset
               \* when another writer rewrites q
  lastBatch    \* history: the outcome of the batch write of the loop
               \* iteration that just ended (what main logs for it)

batchVars == << entityDoc, db, txDb, job, applied, lastBatch >>

\* A Game row as the roster crawl creates it.
GameStub ==
  [claimsJson |-> JsonNull, releaseYear |-> NoNumber, firstReleaseAt |-> NoDate,
   imageCommons |-> Null, lastEnrichedAt |-> FALSE]

NoTx == [derived |-> [t \in AllTables |-> EmptyBag], tag |-> {}, company |-> {}]

NoParsed ==
  [scalarUpdates |-> << >>, derivedRows |-> [t \in HydrateTables |-> << >>]]

NoJob ==
  [pc |-> "idle", includeNiche |-> TRUE, enrichAll |-> FALSE,
   cursorQid |-> NullQid, batch |-> << >>, parsed |-> NoParsed,
   existingPlatforms |-> {}, existingRelationTargets |-> {},
   toInsert |-> [t \in AllTables |-> << >>], gameUpdates |-> << >>,
   skippedGameRelationRows |-> 0, errors |-> 0, attempt |-> 0,
   backoffMs |-> DbBackoffMs]

\* No batch was written yet.
NoBatch ==
  [outcome |-> "none", writer |-> "none", qids |-> {},
   skippedGameRelationRows |-> 0, droppedPlatformRows |-> 0,
   droppedRelationRows |-> 0, removedRows |-> {}, repeated |-> {},
   discarded |-> FALSE, error |-> "none", attempts |-> 0, ended |-> "none",
   waitMs |-> 0]

NotApplied == [claimsJson |-> JsonNull]

\* The games the batch stages work on; the documents also name a game
\* that is never stored.
BatchGames == { <<1>>, <<2>> }

\* The successive states of each game's entity upstream: statements are
\* removed, and the entity is deleted or emptied.
EntityVersions ==
  [q \in BatchGames |->
     IF q = <<1>> THEN << DocFull, DocTrimmed, MissingEntity >>
     ELSE << DocOdd, DocEmpty >>]

InitBatch ==
  /\ entityDoc = [q \in BatchGames |-> EntityVersions[q][1]]
  /\ db = [game |-> [q \in {<<1>>} |-> GameStub],
           platform |-> {"Q_PS"}, tag |-> {}, company |-> {},
           derived |-> [t \in AllTables |-> EmptyBag]]
  /\ txDb = NoTx
  /\ job = NoJob
  /\ applied = [q \in BatchGames |-> NotApplied]
  /\ lastBatch = NoBatch

\* The game a derived row belongs to (the column deleteMany filters on).
GameOf(table, row) ==
  IF table = "gameRelation" THEN row.fromGameQid ELSE row.gameQid

\* The row's value of the table's unique index or primary key.
UniqueKey(table, row) ==
  CASE table = "releaseDate" -> << row.gameQid, row.claimId >>
    [] table = "website" -> << row.gameQid, row.url >>
    [] table = "gameScore" -> << row.gameQid, row.provider >>
    [] table = "alternativeName" -> << row.gameQid, row.name >>
    [] OTHER -> DedupeKey(table, row)

RECURSIVE CreateMany(_, _, _)
\* tx.<table>.createMany({ data, skipDuplicates: true }): each row of data is
\* inserted unless a row with its unique key is present (ON CONFLICT DO
\* NOTHING); a NULL in a unique index conflicts with nothing
\* (ReleaseDate.claimId).
CreateMany(table, bag, data) ==
  IF data = << >> THEN bag
  ELSE LET row == Head(data)
           conflict == /\ ~(table = "releaseDate" /\ row.claimId = Null)
                       /\ \E x \in DOMAIN bag :
                            UniqueKey(table, x) = UniqueKey(table, row)
       IN CreateMany(table,
                     IF conflict THEN bag ELSE bag (+) SetToBag({row}),
                     Tail(data))

\* A deleteMany that deletes nothing.
DeleteNothing(bag, table, qids) == bag

\* tx.<table>.deleteMany({ where: { gameQid: { in: qids } } })
DeleteMany(bag, table, qids) ==
  [r \in { x \in DOMAIN bag : GameOf(table, x) \notin qids } |-> bag[r]]

\* The rows of game q in a table.
RowsOfGame(bag, table, q) ==
  [r \in { x \in DOMAIN bag : GameOf(table, x) = q } |-> bag[r]]

\* A failed transaction that keeps what it had written so far.
KeepPartial(before, working) == working

\* prisma.$transaction(async (tx) => ...): when the callback throws, the
\* transaction is rolled back and the tables are as before it began.
RolledBack(before, working) == before

\* applyBatch with the deletes limited to the relation tables of item ids.
DeleteTablesItemsOnly ==
  { "gamePlatform", "gameTag", "gameCompany", "gameRelation" }

\* applyBatch: the tables of its deleteMany calls.
ApplyDeleteTables == HydrateTables

\* enrichBatch: the tables of its deleteMany calls.
EnrichDeleteTables == EnrichTables

\* const qids = games.map((game) => game.qid)
BatchQids(gs) == { gs[i].qid : i \in DOMAIN gs }

\* The candidate row findMany selects for a game.
Candidate(q) ==
  [qid |-> q, claimsJson |-> db.game[q].claimsJson,
   releaseYear |-> db.game[q].releaseYear,
   firstReleaseAt |-> db.game[q].firstReleaseAt,
   imageCommons |-> db.game[q].imageCommons]

\* prisma.game.findMany({ where: qid > cursor and more, orderBy: qid asc,
\* take }): the first `take` matching games after the cursor.
FindGames(matching, cursorQid, take) ==
  LET found == SortedSeq({ q \in DOMAIN db.game :
                             /\ cursorQid = NullQid \/ LexLess(cursorQid, q)
                             /\ q \in matching })
      page == SubSeq(found, 1, IF Len(found) < take THEN Len(found) ELSE take)
  IN [k \in DOMAIN page |-> Candidate(page[k])]

\* The cursor left where it was.
CursorKept(gs, cursorQid) == cursorQid

\* main: cursorQid = games[games.length - 1]?.qid ?? cursorQid
NextCursor(gs, cursorQid) ==
  IF Len(gs) > 0 THEN gs[Len(gs)].qid ELSE cursorQid

(***************************************************************************)
(* hydrateGamesFromClaims: main and applyBatch                             *)
(***************************************************************************)

\* The steps of a batch write between the start of its transaction and its
\* commit.
TxPcs == { "hTxEntities", "hTxDelete", "hTxInsert", "hTxScalars",
           "eTxEntities", "eTxDelete", "eTxInsert", "eTxGames" }

\* The transaction's view of the store.
TxView == [db EXCEPT !.derived = txDb.derived, !.tag = txDb.tag,
                     !.company = txDb.company]

\* prisma.$transaction begins: its working state is the committed store.
BeginTx == [derived |-> db.derived, tag |-> db.tag, company |-> db.company]

\* A row the store rejects with a foreign-key violation.
FkViolation(store, table, row) ==
  \/ GameOf(table, row) \notin DOMAIN store.game
  \/ table = "gamePlatform" /\ row.platformQid \notin store.platform
  \/ table = "gameTag" /\ row.tagId \notin store.tag
  \/ table = "gameCompany" /\ row.companyQid \notin store.company
  \/ table = "gameRelation" /\ row.toGameQid \notin DOMAIN store.game
  \/ table = "releaseDate" /\ row.platformQid # Null
       /\ row.platformQid \notin store.platform

\* Some createMany of the rows to insert would be rejected.
InsertRejected(store, toInsert, tables) ==
  \E t \in tables : \E i \in DOMAIN toInsert[t] :
    FkViolation(store, t, toInsert[t][i])

\* main: parseCliOptions, getHydratableRegistryEntries; cursorQid = null.
StartHydrate(includeNiche) ==
  /\ job.pc \in { "idle", "exited" }
  /\ job' = [NoJob EXCEPT !.pc = "hFind", !.includeNiche = includeNiche]
  /\ lastBatch' = NoBatch
  /\ UNCHANGED << entityDoc, db, txDb, applied >>

\* main: the findMany of one loop iteration; an empty batch ends the run,
\* else parseBatch runs on the batch.
HydrateFind ==
  /\ job.pc = "hFind"
  /\ LET gs == FindGames({ q \in DOMAIN db.game : db.game[q].claimsJson # JsonNull },
                         job.cursorQid, BatchSize)
     IN IF gs = << >>
        THEN job' = [job EXCEPT !.pc = "idle"]
        ELSE job' = [job EXCEPT
               !.pc = "hLookup", !.batch = gs,
               !.parsed = ParseBatch(gs,
                            GetHydratableRegistryEntries(job.includeNiche))]
  /\ lastBatch' = NoBatch
  /\ UNCHANGED << entityDoc, db, txDb, applied >>

\* applyBatch: skippedGameRelationRows =
\*   parsed.gameRelationRows.length - filteredGameRelationRows.length
SkippedGameRelationRows(parsedRows, filteredPlatformRows, filteredRelationRows) ==
  Len(parsedRows["gameRelation"]) - Len(filteredRelationRows)

\* applyBatch before its transaction: the lookups of existing platforms and
\* relation targets, and the filters.
ApplyLookup ==
  /\ job.pc = "hLookup"
  /\ LET parsedRows == job.parsed.derivedRows
         existingPlatforms ==
           { parsedRows["gamePlatform"][i].platformQid :
               i \in DOMAIN parsedRows["gamePlatform"] } \cap db.platform
         existingRelationTargets ==
           { parsedRows["gameRelation"][i].toGameQid :
               i \in DOMAIN parsedRows["gameRelation"] } \cap DOMAIN db.game
         filteredGamePlatformRows ==
           SelectSeq(parsedRows["gamePlatform"],
                     LAMBDA row : row.platformQid \in existingPlatforms)
         filteredGameRelationRows ==
           SelectSeq(parsedRows["gameRelation"],
                     LAMBDA row : row.toGameQid \in existingRelationTargets)
     IN /\ job' = [job EXCEPT
              !.pc = "hTxEntities",
              !.existingPlatforms = existingPlatforms,
              !.existingRelationTargets = existingRelationTargets,
              !.toInsert =
                [t \in AllTables |->
                   IF t = "gamePlatform" THEN filteredGamePlatformRows
                   ELSE IF t = "gameRelation" THEN filteredGameRelationRows
                   ELSE IF t \in HydrateTables THEN parsedRows[t]
                   ELSE << >>],
              !.skippedGameRelationRows =
                SkippedGameRelationRows(parsedRows, filteredGamePlatformRows,
                                        filteredGameRelationRows)]
        /\ txDb' = BeginTx
  /\ UNCHANGED << entityDoc, db, applied, lastBatch >>

\* applyBatch: tx.tag.createMany and tx.company.createMany, skipDuplicates,
\* of tagsToCreate and companiesToCreate (the tags and companies of the
\* parsed gameTag and gameCompany rows).
ApplyTxEntities ==
  /\ job.pc = "hTxEntities"
  /\ txDb' = [txDb EXCEPT
       !.tag = @ \cup { job.parsed.derivedRows["gameTag"][k].tagId :
                          k \in DOMAIN job.parsed.derivedRows["gameTag"] },
       !.company = @ \cup
         { job.parsed.derivedRows["gameCompany"][k].companyQid :
             k \in DOMAIN job.parsed.derivedRows["gameCompany"] }]
  /\ job' = [job EXCEPT !.pc = "hTxDelete"]
  /\ UNCHANGED << entityDoc, db, applied, lastBatch >>

\* applyBatch: the ten deleteMany calls on the games of the batch.
ApplyTxDelete ==
  /\ job.pc = "hTxDelete"
  /\ txDb' = [txDb EXCEPT
       !.derived = [t \in AllTables |->
                      IF t \in ApplyDeleteTables
                      THEN DeleteMany(@[t], t, BatchQids(job.batch))
                      ELSE @[t]]]
  /\ job' = [job EXCEPT !.pc = "hTxInsert"]
  /\ UNCHANGED << entityDoc, db, applied, lastBatch >>

\* applyBatch: the ten createMany calls (skipDuplicates); a row the store
\* rejects makes the call throw instead.
ApplyTxInsert ==
  /\ job.pc = "hTxInsert"
  /\ ~InsertRejected(TxView, job.toInsert, HydrateTables)
  /\ txDb' = [txDb EXCEPT
       !.derived = [t \in AllTables |->
                      IF t \in HydrateTables
                      THEN CreateMany(t, @[t], job.toInsert[t])
                      ELSE @[t]]]
  /\ job' = [job EXCEPT !.pc = "hTxScalars"]
  /\ UNCHANGED << entityDoc, db, applied, lastBatch >>

\* tx.game.update({ where: { qid }, data: { ...data, lastEnrichedAt } })
GameUpdate(row, data) ==
  [f \in DOMAIN row |->
     IF f \in DOMAIN data THEN data[f]
     ELSE IF f = "lastEnrichedAt" THEN TRUE ELSE row[f]]

RECURSIVE ApplyGameUpdates(_, _)
\* The game.update calls of a batch in order.
ApplyGameUpdates(gameTable, updates) ==
  IF updates = << >> THEN gameTable
  ELSE ApplyGameUpdates(
         [gameTable EXCEPT ![Head(updates).qid] =
            GameUpdate(@, Head(updates).data)],
         Tail(updates))

\* The document of game q as the batch read it.
DocRead(q) ==
  job.batch[CHOOSE k \in DOMAIN job.batch : job.batch[k].qid = q].claimsJson

\* The inputs of an applyBatch of game q: its document, the options and the
\* results of the lookups.
ApplyInputs(q) ==
  [claimsJson |-> DocRead(q), includeNiche |-> job.includeNiche,
   existingPlatforms |-> job.existingPlatforms,
   existingRelationTargets |-> job.existingRelationTargets]

\* The rows of the games qids in a store, as (table, row) pairs.
RowsIn(store, qids) ==
  { << t, r >> \in UNION { {t} \X DOMAIN store.derived[t] : t \in AllTables } :
      GameOf(t, r) \in qids }

\* History of a batch write that committed.
BatchCommitted(writer, after) ==
  [outcome |-> "committed", writer |-> writer, qids |-> BatchQids(job.batch),
   skippedGameRelationRows |-> job.skippedGameRelationRows,
   droppedPlatformRows |->
     Len(job.parsed.derivedRows["gamePlatform"])
       - Len(job.toInsert["gamePlatform"]),
   droppedRelationRows |->
     Len(job.parsed.derivedRows["gameRelation"])
       - Len(job.toInsert["gameRelation"]),
   removedRows |-> RowsIn(db, BatchQids(job.batch))
                     \ RowsIn(after, BatchQids(job.batch)),
   repeated |-> IF writer = "hydrate"
                THEN { q \in BatchQids(job.batch) : applied[q] = ApplyInputs(q) }
                ELSE {},
   discarded |-> FALSE]

\* History of a batch write that failed: the error's code, the number of
\* times the transaction has run, and what the failure led to ("retry" after
\* waitMs, "skipped" by main's catch, or "exit" of the process).
BatchFailed(writer, code, ended, waitMs) ==
  [NoBatch EXCEPT !.outcome = "failed", !.writer = writer,
                  !.qids = BatchQids(job.batch),
                  !.discarded = (txDb.derived # db.derived),
                  !.error = code, !.attempts = job.attempt + 1,
                  !.ended = ended, !.waitMs = waitMs]

\* applyBatch: the scalar game.update calls, the commit and the return; main
\* adds the batch to processed and advances the cursor.
ApplyTxCommit ==
  /\ job.pc = "hTxScalars"
  /\ db' = [db EXCEPT
       !.derived = txDb.derived, !.tag = txDb.tag, !.company = txDb.company,
       !.game = ApplyGameUpdates(@, job.parsed.scalarUpdates)]
  /\ txDb' = NoTx
  /\ job' = [job EXCEPT !.pc = "hFind",
                        !.cursorQid = NextCursor(job.batch, @)]
  /\ applied' = [q \in BatchGames |->
                   IF q \in BatchQids(job.batch) THEN ApplyInputs(q)
                   ELSE applied[q]]
  /\ lastBatch' = BatchCommitted("hydrate", db')
  /\ UNCHANGED entityDoc

\* A step of applyBatch's transaction throws (a rejected row, a conflict):
\* the transaction is rolled back; applyBatch has no retry, main's catch
\* counts the error, logs the cursor and advances it past the batch.
ApplyThrows(code) ==
  /\ job.pc \in { "hTxEntities", "hTxDelete", "hTxInsert", "hTxScalars" }
  /\ db' = RolledBack(db, TxView)
  /\ txDb' = NoTx
  /\ job' = [job EXCEPT !.pc = "hFind", !.errors = @ + 1,
                        !.cursorQid = NextCursor(job.batch, @)]
  /\ lastBatch' = BatchFailed("hydrate", code, "skipped", 0)
  /\ UNCHANGED << entityDoc, applied >>

(***************************************************************************)
(* enrichGames: the parse of enrichBatch                                   *)
(***************************************************************************)

\* TAG_PROPERTY_SPECS
TagPropertySpecs ==
  << [propertyId |-> "P136", kind |-> "GENRE"],
     [propertyId |-> "P179", kind |-> "SERIES"],
     [propertyId |-> "P408", kind |-> "ENGINE"],
     [propertyId |-> "P404", kind |-> "MODE"],
     [propertyId |-> "P921", kind |-> "THEME"],
     [propertyId |-> "P2572", kind |-> "KEYWORD"],
     [propertyId |-> "P8345", kind |-> "FRANCHISE"] >>

\* COMPANY_PROPERTY_SPECS
CompanyPropertySpecs ==
  << [propertyId |-> "P178", role |-> "DEVELOPER"],
     [propertyId |-> "P123", role |-> "PUBLISHER"] >>

\* The aliases the upstream entity carries beside its claims.
EntityAliases(entity) == IF entity = DocFull THEN << "DOOM", "DOOM" >> ELSE << >>

\* entity?.claims: undefined for an entity that is missing.
ClaimsOf(entity) == IF entity = MissingEntity THEN JsonNull ELSE entity

\* extractEntityIds and extractImageCommonsFiles: the distinct values in the
\* order of their first statement.
ExtractEntityIds(claims, propertyId) ==
  LET sts == FirstOfValue(WithValue(GetPropertyStatements(claims, propertyId)))
  IN [k \in DOMAIN sts |-> sts[k].value]

\* extractStringClaims: per distinct value its first statement's claim id.
ExtractStringClaims(claims, propertyId) ==
  LET sts == FirstOfValue(WithValue(GetPropertyStatements(claims, propertyId)))
  IN [k \in DOMAIN sts |-> [claimId |-> sts[k].id, value |-> sts[k].value]]

\* extractImageCommons: the value of the first P18 statement that has one.
ExtractImageCommons(claims) ==
  LET sts == WithValue(GetPropertyStatements(claims, "P18"))
  IN IF sts = << >> THEN Null ELSE sts[1].value

\* extractReleaseDateClaims: a Map keyed by claim id, or by the time string
\* when the statement has none (one entry per key, at the position of the
\* key's first statement, holding its last).
ExtractReleaseDateClaims(claims) ==
  DedupeRows("releaseDateClaim",
             ExtractTimeValues(GetPropertyStatements(claims, "P577")))

\* extractQuantityClaims: a Map keyed by claim id, or by property, amount
\* and unit.
ExtractQuantityClaims(claims, propertyId) ==
  LET sts == WithValue(GetPropertyStatements(claims, propertyId))
  IN DedupeRows("quantityClaim",
                [k \in DOMAIN sts |->
                   [claimId |-> sts[k].id, amount |-> sts[k].value]])

\* parseTagLinks / parseCompanyLinks: one link per spec and entity id.
ParseLinks(gameQid, claims, specs) ==
  FlattenSeq([si \in DOMAIN specs |->
    LET ids == ExtractEntityIds(claims, specs[si].propertyId)
    IN [k \in DOMAIN ids |-> [gameQid |-> gameQid, id |-> ids[k],
                              spec |-> specs[si]]]])

\* parseReleaseDates: one row per release date claim, without rank and
\* platform.
ParseReleaseDates(gameQid, claims) ==
  LET cs == ExtractReleaseDateClaims(claims)
  IN [k \in DOMAIN cs |->
        [ReleaseDateRow(gameQid, [source |-> << "wikidata", "P577" >>], cs[k])
           EXCEPT !.rank = Null, !.platformQid = Null]]

\* parseWebsites
ParseWebsites(gameQid, claims) ==
  LET cs == ExtractStringClaims(claims, "P856")
  IN [k \in DOMAIN cs |->
        [gameQid |-> gameQid, category |-> "OFFICIAL", url |-> cs[k].value,
         source |-> << "wikidata", "P856" >>, claimId |-> cs[k].claimId]]

\* parseGameImages: COVER for the file extractImageCommons returns.
ParseGameImages(gameQid, claims) ==
  LET files == ExtractEntityIds(claims, "P18")
  IN [k \in DOMAIN files |->
        [gameQid |-> gameQid,
         kind |-> IF files[1] = files[k] THEN "COVER" ELSE "OTHER",
         url |-> CommonsFileUrl(files[k]),
         source |-> << "wikidata", "P18" >>, imageId |-> files[k]]]

\* parseAlternativeNames: the distinct aliases; none for a missing entity.
ParseAlternativeNames(gameQid, entity) ==
  LET aliases == EntityAliases(entity)
      firsts == { i \in DOMAIN aliases :
                    \A j \in DOMAIN aliases : j < i => aliases[j] # aliases[i] }
      names == SubSeqByIdx(aliases, firsts)
  IN [k \in DOMAIN names |->
        [gameQid |-> gameQid, name |-> names[k],
         source |-> << "wikidata", "alias" >>]]

\* parseExternalGames, one property: its string claims as rows.
ExternalGameRows(gameQid, cs, propertyId, category, base) ==
  [k \in DOMAIN cs |->
     [gameQid |-> gameQid, category |-> category,
      uid |-> cs[k].value, url |-> << base, cs[k].value >>,
      source |-> << "wikidata", propertyId >>, claimId |-> cs[k].claimId]]

\* parseExternalGames: Steam (P1733) then GOG (P2725) ids.
ParseExternalGames(gameQid, claims) ==
  ExternalGameRows(gameQid, ExtractStringClaims(claims, "P1733"), "P1733",
                   "STEAM", "https://store.steampowered.com/app/")
    \o ExternalGameRows(gameQid, ExtractStringClaims(claims, "P2725"), "P2725",
                        "GOG", "https://www.gog.com/game/")

\* parseVideos
ParseVideos(gameQid, claims) ==
  LET cs == ExtractStringClaims(claims, "P1651")
  IN [k \in DOMAIN cs |->
        [gameQid |-> gameQid, provider |-> "YOUTUBE", videoId |-> cs[k].value,
         source |-> << "wikidata", "P1651" >>, claimId |-> Null]]

\* median: the lower median of the amounts (the claim at it).
MedianClaim(cs) ==
  cs[CHOOSE i \in DOMAIN cs :
       Cardinality({ j \in DOMAIN cs :
                       \/ cs[j].amount < cs[i].amount
                       \/ cs[j].amount = cs[i].amount /\ j < i })
         = (Len(cs) - 1) \div 2]

\* parseScoreRows, from the quantity claims.
ScoreRowsOf(gameQid, cs) ==
  IF cs = << >> THEN << >>
  ELSE << [gameQid |-> gameQid, provider |-> "WIKIDATA",
           score |-> MedianClaim(cs).amount,
           source |-> << "wikidata", "P444" >>,
           claimId |-> MedianClaim(cs).claimId] >>

\* parseScoreRows: the lower median of the P444 amounts, as the one row of
\* provider WIKIDATA.
ParseScoreRows(gameQid, claims) ==
  ScoreRowsOf(gameQid, ExtractQuantityClaims(claims, "P444"))

\* Dates in calendar order.
DateLess(a, b) ==
  \/ a[1] < b[1]
  \/ a[1] = b[1] /\ a[2] < b[2]
  \/ a[1] = b[1] /\ a[2] = b[2] /\ a[3] < b[3]

\* The least year and the earliest date of release date claims.
EarliestOf(cs) ==
  IF cs = << >> THEN [year |-> NoNumber, date |-> NoDate]
  ELSE [year |-> cs[CHOOSE i \in DOMAIN cs :
                      \A j \in DOMAIN cs : cs[i].year <= cs[j].year].year,
        date |-> LET dates == [i \in DOMAIN cs |->
                                 ToUtcDate(cs[i].year, cs[i].month, cs[i].day)]
                 IN dates[CHOOSE i \in DOMAIN dates :
                            \A j \in DOMAIN dates :
                              ~DateLess(dates[j], dates[i])]]

\* extractReleaseYear: the least year of the release date claims.
ExtractReleaseYear(claims) == EarliestOf(ExtractReleaseDateClaims(claims)).year

\* extractFirstReleaseAt: the earliest date of the release date claims.
ExtractFirstReleaseAt(claims) ==
  EarliestOf(ExtractReleaseDateClaims(claims)).date

\* buildGameUpdate: the fields of the game.update of one game.
BuildGameUpdate(gameQid, entity) ==
  IF entity = MissingEntity
  THEN [qid |-> gameQid,
        data |-> [imageCommons |-> Null, releaseYear |-> NoNumber,
                  firstReleaseAt |-> NoDate, claimsJson |-> JsonNull]]
  ELSE [qid |-> gameQid,
        data |-> [imageCommons |-> ExtractImageCommons(entity),
                  releaseYear |-> ExtractReleaseYear(entity),
                  firstReleaseAt |-> ExtractFirstReleaseAt(entity),
                  claimsJson |-> entity]]

\* enrichBatch: the rows of a table parsed for one game (tag and company
\* links once per key; their sort changes no table).
EnrichRowsOfGame(table, gameQid, entity) ==
  CASE table = "gameTag" ->
         LET tagLinks == ParseLinks(gameQid, ClaimsOf(entity), TagPropertySpecs)
         IN DedupeRows(table,
              [k \in DOMAIN tagLinks |->
                 [gameQid |-> gameQid, tagId |-> tagLinks[k].id]])
    [] table = "gameCompany" ->
         LET companyLinks ==
               ParseLinks(gameQid, ClaimsOf(entity), CompanyPropertySpecs)
         IN DedupeRows(table,
              [k \in DOMAIN companyLinks |->
                 [gameQid |-> gameQid, companyQid |-> companyLinks[k].id,
                  role |-> companyLinks[k].spec.role]])
    [] table = "releaseDate" -> ParseReleaseDates(gameQid, ClaimsOf(entity))
    [] table = "website" -> ParseWebsites(gameQid, ClaimsOf(entity))
    [] table = "gameImage" -> ParseGameImages(gameQid, ClaimsOf(entity))
    [] table = "alternativeName" -> ParseAlternativeNames(gameQid, entity)
    [] table = "externalGame" -> ParseExternalGames(gameQid, ClaimsOf(entity))
    [] table = "gameVideo" -> ParseVideos(gameQid, ClaimsOf(entity))
    [] table = "gameScore" -> ParseScoreRows(gameQid, ClaimsOf(entity))

\* enrichBatch: the rows to insert, per table over the games of the batch.
EnrichRows(gs, entities) ==
  [t \in AllTables |->
     IF t \notin EnrichTables THEN << >>
     ELSE FlattenSeq([gi \in DOMAIN gs |->
            EnrichRowsOfGame(t, gs[gi].qid, entities[gs[gi].qid])])]

(***************************************************************************)
(* enrichGames: main and enrichBatch (one batch in flight)                 *)
(***************************************************************************)

\* main: parseCliOptions (--all); cursorQid = null.
StartEnrich(enrichAllGames) ==
  /\ job.pc \in { "idle", "exited" }
  /\ job' = [NoJob EXCEPT !.pc = "eFind", !.enrichAll = enrichAllGames]
  /\ lastBatch' = NoBatch
  /\ UNCHANGED << entityDoc, db, txDb, applied >>

\* main: the findMany of one loop iteration; an empty result ends the run.
EnrichFind ==
  /\ job.pc = "eFind"
  /\ LET gs == FindGames(
                 { q \in DOMAIN db.game :
                     job.enrichAll \/ ~db.game[q].lastEnrichedAt },
                 job.cursorQid, BatchSize)
     IN IF gs = << >>
        THEN job' = [job EXCEPT !.pc = "idle"]
        ELSE job' = [job EXCEPT !.pc = "eFetch", !.batch = gs]
  /\ lastBatch' = NoBatch
  /\ UNCHANGED << entityDoc, db, txDb, applied >>

\* enrichBatch: wbGetEntitiesFull answers with the entities as they are
\* upstream now; the parse; the write transaction begins.
EnrichFetch ==
  /\ job.pc = "eFetch"
  /\ job' = [job EXCEPT
       !.pc = "eTxEntities",
       !.toInsert = EnrichRows(job.batch, entityDoc),
       !.gameUpdates =
         [k \in DOMAIN job.batch |->
            BuildGameUpdate(job.batch[k].qid, entityDoc[job.batch[k].qid])]]
  /\ txDb' = BeginTx
  /\ UNCHANGED << entityDoc, db, applied, lastBatch >>

\* enrichBatch: tx.tag.createMany and tx.company.createMany, skipDuplicates,
\* of the tags and companies of the links.
EnrichTxEntities ==
  /\ job.pc = "eTxEntities"
  /\ txDb' = [txDb EXCEPT
       !.tag = @ \cup { job.toInsert["gameTag"][k].tagId :
                          k \in DOMAIN job.toInsert["gameTag"] },
       !.company = @ \cup { job.toInsert["gameCompany"][k].companyQid :
                              k \in DOMAIN job.toInsert["gameCompany"] }]
  /\ job' = [job EXCEPT !.pc = "eTxDelete"]
  /\ UNCHANGED << entityDoc, db, applied, lastBatch >>

\* enrichBatch: the nine deleteMany calls on the games of the batch.
EnrichTxDelete ==
  /\ job.pc = "eTxDelete"
  /\ txDb' = [txDb EXCEPT
       !.derived = [t \in AllTables |->
                      IF t \in EnrichDeleteTables
                      THEN DeleteMany(@[t], t, BatchQids(job.batch))
                      ELSE @[t]]]
  /\ job' = [job EXCEPT !.pc = "eTxInsert"]
  /\ UNCHANGED << entityDoc, db, applied, lastBatch >>

\* enrichBatch: the nine createMany calls (skipDuplicates).
EnrichTxInsert ==
  /\ job.pc = "eTxInsert"
  /\ ~InsertRejected(TxView, job.toInsert, EnrichTables)
  /\ txDb' = [txDb EXCEPT
       !.derived = [t \in AllTables |->
                      IF t \in EnrichTables
                      THEN CreateMany(t, @[t], job.toInsert[t])
                      ELSE @[t]]]
  /\ job' = [job EXCEPT !.pc = "eTxGames"]
  /\ UNCHANGED << entityDoc, db, applied, lastBatch >>

\* enrichBatch: the game.update of every game of the batch, the commit and
\* the return; main advances the cursor.
EnrichTxCommit ==
  /\ job.pc = "eTxGames"
  /\ db' = [db EXCEPT
       !.derived = txDb.derived, !.tag = txDb.tag, !.company = txDb.company,
       !.game = ApplyGameUpdates(@, job.gameUpdates)]
  /\ txDb' = NoTx
  /\ job' = [job EXCEPT !.pc = "eFind", !.attempt = 0,
                        !.backoffMs = DbBackoffMs,
                        !.cursorQid = NextCursor(job.batch, @)]
  /\ applied' = [q \in BatchGames |->
                   IF q \in BatchQids(job.batch) THEN NotApplied
                   ELSE applied[q]]
  /\ lastBatch' = BatchCommitted("enrich", db')
  /\ UNCHANGED entityDoc

\* A step of enrichBatch's transaction throws and the transaction is rolled
\* back. withDbRetry sleeps backoffMs, doubles it up to the cap and runs the
\* transaction again when the error is a serialization failure or a
\* deadlock and attempts remain; else the error leaves enrichBatch and
\* Promise.all, and main().catch ends the process with exit code 1.
EnrichThrows(code) ==
  /\ job.pc \in { "eTxEntities", "eTxDelete", "eTxInsert", "eTxGames" }
  /\ db' = RolledBack(db, TxView)
  /\ IF IsRetriableDbError(code) /\ job.attempt < DbRetries
     THEN /\ job' = [job EXCEPT
                      !.pc = "eTxEntities", !.attempt = @ + 1,
                      !.backoffMs = Min2(@ * 2, DbBackoffCapMs)]
          /\ txDb' = BeginTx
          /\ lastBatch' = BatchFailed("enrich", code, "retry", job.backoffMs)
     ELSE /\ job' = [job EXCEPT !.pc = "exited", !.errors = @ + 1]
          /\ txDb' = NoTx
          /\ lastBatch' = BatchFailed("enrich", code, "exit", 0)
  /\ UNCHANGED << entityDoc, applied >>

(***************************************************************************)
(* The environment of the batch stages                                     *)
(***************************************************************************)

\* The upstream entity of a game is edited or deleted.
EntityRevised(q) ==
  /\ \E v \in 1..(Len(EntityVersions[q]) - 1) :
       /\ entityDoc[q] = EntityVersions[q][v]
       /\ entityDoc' = [entityDoc EXCEPT ![q] = EntityVersions[q][v + 1]]
  /\ UNCHANGED << db, txDb, job, applied, lastBatch >>

\* The platform import stores a platform.
PlatformImported(p) ==
  /\ p \notin db.platform
  /\ db' = [db EXCEPT !.platform = @ \cup {p}]
  /\ UNCHANGED << entityDoc, txDb, job, applied, lastBatch >>

\* The roster crawl stores the stub of a game.
GameStubCreated(q) ==
  /\ q \notin DOMAIN db.game
  /\ db' = [db EXCEPT
       !.game = [g \in DOMAIN @ \cup {q} |->
                   IF g = q THEN GameStub ELSE @[g]]]
  /\ UNCHANGED << entityDoc, txDb, job, applied, lastBatch >>

\* What prisma.review.groupBy yields for a game: no rated review, or the
\* average rating (in thousandths) and the number of ratings.
NoReviews == [avg |-> NoNumber, count |-> 0]

ReviewStats ==
  { NoReviews, [avg |-> 4333, count |-> 3], [avg |-> 3500, count |-> 2] }

\* Number(avg.toFixed(2)), in hundredths.
ToFixed2(thousandths) == (thousandths + 5) \div 10

\* The GameScore row backfillGameScores upserts for a rated game.
InternalScoreRow(q, stats) ==
  [gameQid |-> q, provider |-> "INTERNAL", score |-> ToFixed2(stats.avg),
   count |-> stats.count, source |-> << "internal", "reviews" >>]

\* backfillGameScores, main: the transaction of one game: the rating fields
\* of the game (NoNumber for null), and its GameScore row of provider INTERNAL deleted (no
\* rating) or upserted on (gameQid, provider).
BackfillGameScores(q, stats) ==
  /\ job.pc \notin TxPcs
  /\ q \in DOMAIN db.game
  /\ LET rating == IF stats.avg = NoNumber THEN NoNumber
                   ELSE ToFixed2(stats.avg)
         ratingCount == stats.count
         others == { r \in DOMAIN db.derived["gameScore"] :
                       ~(r.gameQid = q /\ r.provider = "INTERNAL") }
         kept == [r \in others |-> db.derived["gameScore"][r]]
     IN db' = [db EXCEPT
          !.game[q] = [f \in DOMAIN @ \cup { "rating", "ratingCount" } |->
                         CASE f = "rating" -> rating
                           [] f = "ratingCount" -> ratingCount
                           [] OTHER -> @[f]],
          !.derived["gameScore"] =
            IF rating = NoNumber THEN kept
            ELSE kept (+) BagOfSet({ InternalScoreRow(q, stats) })]
  /\ UNCHANGED << entityDoc, txDb, job, applied, lastBatch >>

(***************************************************************************)
(* parseBatch on one candidate game: the scalar targets (release date,     *)
(* primary image)                                                          *)
(***************************************************************************)

MaxTimeStatements == 2
MaxImageStatements == 3

VARIABLES
  parseGame,    \* the candidate game handed to parseBatch
  parseResult   \* what parseBatch made of it (NotParsed before the call)

parseVars == << parseGame, parseResult >>

\* P577 statements of normal rank in 1998 for every class of precision
\* (null, below 9, 9, 10, 11) with and without month and day, one whose year
\* does not parse, and statements of the other ranks.
TimeStatements ==
  { TimeStmt("d1", "normal", 1998, 11, 23, 11, Null),
    TimeStmt("d2", "normal", 1998, 11, 0, 11, Null),
    TimeStmt("d3", "normal", 1998, 0, 0, 11, Null),
    TimeStmt("d4", "normal", 1998, 0, 23, 11, Null),
    TimeStmt("d5", "normal", 1998, 11, 23, 10, Null),
    TimeStmt("d6", "normal", 1998, 11, 0, 10, Null),
    TimeStmt("d7", "normal", 1998, 0, 0, 10, Null),
    TimeStmt("d8", "normal", 1998, 11, 23, 9, Null),
    TimeStmt("d9", "normal", 1998, 0, 0, 9, Null),
    TimeStmt("d10", "normal", 1998, 11, 23, 8, Null),
    TimeStmt("d11", "normal", 1998, 0, 0, 8, Null),
    TimeStmt("d12", "normal", 1998, 11, 23, NoNumber, Null),
    TimeStmt("d13", "normal", 1998, 11, 0, NoNumber, Null),
    TimeStmt("d14", "normal", 1998, 0, 0, NoNumber, Null),
    TimeStmt("d15", "preferred", 0, 0, 0, 11, Null),
    TimeStmt("d16", "preferred", 1999, 5, 7, 11, Null),
    TimeStmt("d17", "deprecated", 1999, 5, 7, 11, Null),
    TimeStmt("d18", "unranked", 1999, 5, 7, 11, Null),
    TimeStmt("d19", "preferred", 1998, 11, 23, 11, Null) }

\* P18 statements: two files under every rank, and one without a value.
ImageStatements ==
  { Stmt(Null, rank, file) :
      rank \in { "preferred", "normal", "deprecated", "unranked" },
      file \in { "Doom.png", "Box.jpg" } }
    \cup { NoValueStmt(Null, "preferred", "") }

\* The sequences over a set of statements of a length up to n.
StatementLists(statements, n) ==
  UNION { [1..len -> statements] : len \in 0..n }

\* The scalar columns a stored game may hold: none (a stub), or values
\* derived before.
StoredScalars ==
  { [releaseYear |-> NoNumber, firstReleaseAt |-> NoDate,
     imageCommons |-> Null],
    [releaseYear |-> 1998, firstReleaseAt |-> << 1998, 11, 23 >>,
     imageCommons |-> "Doom.png"],
    [releaseYear |-> 1999, firstReleaseAt |-> << 1999, 5, 7 >>,
     imageCommons |-> "Box.jpg"] }

\* A candidate row of findMany with the claims document and scalar columns
\* given.
CandidateOf(q, claims, stored) ==
  [qid |-> q, claimsJson |-> claims, releaseYear |-> stored.releaseYear,
   firstReleaseAt |-> stored.firstReleaseAt,
   imageCommons |-> stored.imageCommons]

NotParsed == [parsed |-> FALSE]

\* A game whose document carries statements of one scalar property.
InitParse ==
  /\ \E stored \in StoredScalars :
       \/ \E statements \in StatementLists(TimeStatements, MaxTimeStatements) :
            parseGame = CandidateOf(<< 1 >>, [P577 |-> statements], stored)
       \/ \E statements \in StatementLists(ImageStatements, MaxImageStatements) :
            parseGame = CandidateOf(<< 1 >>, [P18 |-> statements], stored)
  /\ parseResult = NotParsed

\* pickBestValue on the candidates of a scalar target, as the sequence of
\* the best candidate (empty for null).
BestOf(candidates) ==
  IF candidates = << >> THEN << >> ELSE << PickBestValue(candidates) >>

\* parseBatch, the scalar targets of one game: the best of the candidates
\* handed to pickBestValue, the scalar patch and the rows pushed.
ScalarsParsed(game, entries, parsed) ==
  [parsed |-> TRUE,
   bestRelease |->
     BestOf(ExtractTimeValues(
       StatementsOfTarget(game.claimsJson, entries, "game.releaseDate"))),
   bestImage |->
     BestOf(ExtractStringValues(
       StatementsOfTarget(game.claimsJson, entries, "game.image"))),
   scalarPatch |->
     IF parsed.scalarUpdates = << >> THEN << >>
     ELSE parsed.scalarUpdates[1].data,
   releaseDateRows |-> parsed.derivedRows["releaseDate"],
   imageRows |-> parsed.derivedRows["gameImage"]]

\* main: parseBatch(games, entries) on the game.
ParseGame ==
  /\ ~parseResult.parsed
  /\ parseResult' =
       ScalarsParsed(parseGame, GetHydratableRegistryEntries(TRUE),
         ParseBatch(<< parseGame >>, GetHydratableRegistryEntries(TRUE)))
  /\ UNCHANGED parseGame

(***************************************************************************)
(* HTTP fetchers: fetchWithRetry (lib/http) and WikiClient.fetchJson       *)
(***************************************************************************)

MaxRetries == 2

\* fetchWithRetry: opts.backoffMs ?? 400 and Math.min(backoff * 2, 15000)
FetchBackoffMs == 400
FetchBackoffCapMs == 15000

\* WikiClient: retryBaseDelayMs ?? 300 and Math.min(backoffMs * 2, 10000)
RetryBaseDelayMs == 300
WikiBackoffCapMs == 10000

\* text.slice(0, 500) / body.slice(0, 500)
ErrorBodyChars == 500

VARIABLES
  http    \* one call of a fetcher: its options, loop variables, the clock,
          \* the last response and how the call ended

fetchVars == << http >>

Fetchers == { "fetchWithRetry", "fetchJson" }

\* [429, 500, 502, 503, 504]
RetryableStatuses == { 429, 500, 502, 503, 504 }

\* Retry-After headers: absent, delay seconds, an HTTP date (as the time in
\* ms it names), and text that is neither.
NoHeader == [kind |-> "absent", n |-> 0]
RetryAfterHeaders ==
  { NoHeader, [kind |-> "seconds", n |-> 0], [kind |-> "seconds", n |-> 2],
    [kind |-> "date", n |-> 500], [kind |-> "date", n |-> 3000],
    [kind |-> "text", n |-> 0] }

\* What one fetch() call can give: a 2xx response, another status with a
\* Retry-After header and a body of some length, or a rejection (network
\* failure, abort on timeout).
Responses ==
  { [kind |-> "ok", status |-> 200, retryAfter |-> NoHeader, bodyChars |-> 2] }
    \cup { [kind |-> "status", status |-> st, retryAfter |-> h,
            bodyChars |-> 800] :
             st \in { 429, 503 }, h \in RetryAfterHeaders }
    \cup { [kind |-> "status", status |-> 404, retryAfter |-> h,
            bodyChars |-> n] : h \in { NoHeader }, n \in { 9, 800 } }
    \cup { [kind |-> "rejected", status |-> 0, retryAfter |-> NoHeader,
            bodyChars |-> 0] }

NoResponse == [kind |-> "none", status |-> 0, retryAfter |-> NoHeader,
               bodyChars |-> 0]

\* No wait and no error.
NoWait == [ms |-> 0, retryAfterMs |-> << >>]
NoError == [kind |-> "none"]

\* parseRetryAfterMs: null (the empty sequence) for an absent or unparsable
\* header, else the delay in ms as the sequence of one number.
ParseRetryAfterMs(value, now) ==
  CASE value.kind = "seconds" -> << value.n * 1000 >>
    [] value.kind = "date" -> << IF value.n - now > 0 THEN value.n - now ELSE 0 >>
    [] OTHER -> << >>

\* jitter: Math.round(ms * factor) for a factor of 0.85 to 1.15, given in
\* percent.
JitterPercents == { 85, 100, 115 }
Jitter(ms, percent) == (ms * percent + 50) \div 100

\* new Error(`HTTP ${status} ${url}\n${text.slice(0, 500)}`)
HttpError(response) ==
  [kind |-> "http", status |-> response.status,
   bodyChars |-> IF response.bodyChars < ErrorBodyChars THEN response.bodyChars
                 ELSE ErrorBodyChars]

\* The rejection of fetch() itself.
NetworkError == [kind |-> "network"]

\* A call of either fetcher with a retry limit, before its first attempt.
InitFetch ==
  \E fetcher \in Fetchers, retries \in 0..MaxRetries :
    http = [fetcher |-> fetcher, retries |-> retries, pc |-> "attempt",
            attempt |-> 0,
            backoff |-> IF fetcher = "fetchWithRetry" THEN FetchBackoffMs
                        ELSE RetryBaseDelayMs,
            now |-> 1000, requests |-> 0, response |-> NoResponse,
            wait |-> NoWait, error |-> NoError]

\* fetchWithRetry: `attempt < retries` keeps retrying whatever the count.
RetryWithoutLimit(attempt, retries) == TRUE

\* fetchWithRetry: attempt < retries (attempt counts from 0).
MayRetry(attempt, retries) == attempt < retries

\* fetchWithRetry, one pass of the for loop up to its sleep, return or
\* throw: the HTTP error of a status that is not retried is thrown inside
\* the try block and lands in the same catch as a rejection of fetch().
FetchWithRetryAttempt(response, percent) ==
  /\ http.fetcher = "fetchWithRetry"
  /\ http.pc = "attempt"
  /\ LET seen == [http EXCEPT !.requests = @ + 1, !.response = response,
                              !.wait = NoWait]
         retryAfterMs == ParseRetryAfterMs(response.retryAfter, http.now)
     IN http' =
          IF response.kind = "ok" THEN [seen EXCEPT !.pc = "returned"]
          ELSE IF /\ response.kind = "status"
                  /\ response.status \in RetryableStatuses
                  /\ MayRetry(http.attempt, http.retries)
          THEN [seen EXCEPT
                  !.pc = "sleeping",
                  !.wait = [ms |-> IF retryAfterMs # << >> THEN retryAfterMs[1]
                                   ELSE Jitter(http.backoff, percent),
                            retryAfterMs |-> retryAfterMs]]
          ELSE IF MayRetry(http.attempt, http.retries)
          THEN [seen EXCEPT
                  !.pc = "sleeping",
                  !.wait = [ms |-> Jitter(http.backoff, percent),
                            retryAfterMs |-> << >>]]
          ELSE [seen EXCEPT
                  !.pc = "thrown",
                  !.error = IF response.kind = "status" THEN HttpError(response)
                            ELSE NetworkError]

\* fetchWithRetry: the sleep ends; backoff = Math.min(backoff * 2, 15000);
\* continue (attempt++).
FetchWithRetrySleepEnds ==
  /\ http.fetcher = "fetchWithRetry"
  /\ http.pc = "sleeping"
  /\ http' = [http EXCEPT
       !.pc = "attempt", !.attempt = @ + 1, !.now = @ + http.wait.ms,
       !.backoff = IF @ * 2 < FetchBackoffCapMs THEN @ * 2
                   ELSE FetchBackoffCapMs]

\* WikiClient.fetchJson, one pass of the while loop (attempt += 1 first) up
\* to its sleep, return or throw; the header of the response is not read.
FetchJsonAttempt(response) ==
  /\ http.fetcher = "fetchJson"
  /\ http.pc = "attempt"
  /\ LET seen == [http EXCEPT !.attempt = @ + 1, !.requests = @ + 1,
                              !.response = response, !.wait = NoWait]
     IN http' =
          IF response.kind = "ok" THEN [seen EXCEPT !.pc = "returned"]
          ELSE IF seen.attempt <= http.retries
          THEN [seen EXCEPT
                  !.pc = "sleeping",
                  !.wait = [ms |-> http.backoff, retryAfterMs |-> << >>]]
          ELSE [seen EXCEPT
                  !.pc = "thrown",
                  !.error = IF response.kind = "status" THEN HttpError(response)
                            ELSE NetworkError]

\* WikiClient.fetchJson: the sleep ends; backoffMs = Math.min(backoffMs * 2,
\* 10000); continue.
FetchJsonSleepEnds ==
  /\ http.fetcher = "fetchJson"
  /\ http.pc = "sleeping"
  /\ http' = [http EXCEPT
       !.pc = "attempt", !.now = @ + http.wait.ms,
       !.backoff = IF @ * 2 < WikiBackoffCapMs THEN @ * 2 ELSE WikiBackoffCapMs]

(***************************************************************************)
(* The query-service rate gate: waitForWdqsWindow and wdqs                 *)
(***************************************************************************)

\* CONFIG.wdqsMinIntervalMs (WDQS_MIN_INTERVAL_MS, default 250)
WdqsMinIntervalMs == 250

\* The clock advances in steps of GateTickMs up to MaxClockMs.
GateTickMs == 125
MaxClockMs == 1000

VARIABLES
  gate,        \* Date.now() and the module variables nextWdqsAllowedAt and
               \* adaptiveSlowUntil, with the time of the last release and
               \* the smallest distance seen between two releases
  gateCaller   \* per caller of wdqs: where it is, and when its timer is due

gateVars == << gate, gateCaller >>

GateCallers == { "q1", "q2" }

InitGate ==
  /\ gate = [now |-> 0, nextWdqsAllowedAt |-> 0, adaptiveSlowUntil |-> 0,
             lastReleaseAt |-> << >>, closestReleases |-> << >>]
  /\ gateCaller = [w \in GateCallers |-> [pc |-> "idle", wakeAt |-> 0]]


\* waitForWdqsWindow, line 28: nextWdqsAllowedAt = Date.now() +
\* CONFIG.wdqsMinIntervalMs, and the caller goes on to its request (the
\* release is noted with its distance from the release before).
Released(g) ==
  [g EXCEPT
     !.nextWdqsAllowedAt = g.now + WdqsMinIntervalMs,
     !.lastReleaseAt = << g.now >>,
     !.closestReleases =
       IF g.lastReleaseAt = << >> THEN @
       ELSE IF @ = << >> THEN << g.now - g.lastReleaseAt[1] >>
       ELSE << Min2(@[1], g.now - g.lastReleaseAt[1]) >>]

\* waitForWdqsWindow that looks at the minimum interval only.
WaitUntilIntervalOnly(g) == g.nextWdqsAllowedAt

\* const waitUntil = Math.max(nextWdqsAllowedAt, adaptiveSlowUntil)
WaitUntil(g) == Max2(g.nextWdqsAllowedAt, g.adaptiveSlowUntil)

\* The waits fetchWithRetry reports to onRetry.
RetryWaitsMs == { 500 }

\* registerRetry: the end of the slow window a retry asks for.
SlowUntilFor(status, waitMs, now) ==
  IF status = 429 THEN now + waitMs
  ELSE now + Min2(10000, Max2(750, (waitMs * 75 + 50) \div 100))

\* wdqs -> waitForWdqsWindow up to its await: with no time to wait the
\* caller passes at once, else it sets a timer for waitMs.
EnterWdqsWindow(w) ==
  /\ gateCaller[w].pc = "idle"
  /\ LET waitUntil == WaitUntil(gate)
         waitMs == waitUntil - gate.now
     IN IF waitMs > 0
        THEN /\ gateCaller' = [gateCaller EXCEPT
                  ![w] = [pc |-> "waiting", wakeAt |-> gate.now + waitMs]]
             /\ UNCHANGED gate
        ELSE /\ gateCaller' = [gateCaller EXCEPT
                  ![w] = [pc |-> "fetching", wakeAt |-> 0]]
             /\ gate' = Released(gate)

\* waitForWdqsWindow after its await: the timer has fired.
WdqsTimerFires(w) ==
  /\ gateCaller[w].pc = "waiting"
  /\ gate.now >= gateCaller[w].wakeAt
  /\ gateCaller' = [gateCaller EXCEPT ![w] = [pc |-> "fetching", wakeAt |-> 0]]
  /\ gate' = Released(gate)

\* registerRetry, called by fetchWithRetry's onRetry before it sleeps.
RegisterRetry(w, status, waitMs) ==
  /\ gateCaller[w].pc = "fetching"
  /\ gate' = [gate EXCEPT
       !.adaptiveSlowUntil = Max2(@, SlowUntilFor(status, waitMs, gate.now))]
  /\ UNCHANGED gateCaller

\* wdqs: fetchWithRetry has returned or thrown; after a return an adaptive
\* slow-down still ahead is shortened by 250 ms.
WdqsReturns(w, ok) ==
  /\ gateCaller[w].pc = "fetching"
  /\ gateCaller' = [gateCaller EXCEPT ![w] = [pc |-> "idle", wakeAt |-> 0]]
  /\ gate' = [gate EXCEPT
       !.adaptiveSlowUntil =
         IF ok /\ @ > gate.now THEN Max2(gate.now, @ - 250) ELSE @]

\* Time passes (timers may fire late, never early).
ClockAdvances ==
  /\ gate.now + GateTickMs <= MaxClockMs
  /\ gate' = [gate EXCEPT !.now = @ + GateTickMs]
  /\ UNCHANGED gateCaller

(***************************************************************************)
(* enrichGames with ENRICH_CONCURRENCY batches in flight: the fetch limiter *)
(* and the write limiter                                                   *)
(***************************************************************************)

MaxConcurrency == 2
MaxRounds == 2

VARIABLES
  pool    \* main's loop, the enrichBatch call of every chunk of the current
          \* iteration, and the write limiter (running count and queue)

poolVars == << pool >>

\* An enrichBatch call: not started.
NoCall == [pc |-> "none", attempt |-> 0]

\* main: concurrency = Math.max(1, CONFIG.enrichConcurrency); limit =
\* pLimit(concurrency); writeLimiter = pLimit(1).
InitPool ==
  \E concurrency \in 1..MaxConcurrency :
    pool = [mainPc |-> "find", concurrency |-> concurrency, rounds |-> 0,
            call |-> [b \in 1..MaxConcurrency |-> NoCall],
            writeActive |-> 0, writeQueue |-> << >>]

\* pLimit(1) that lets every function start at once.
StartsWriteAtOnce(active) == TRUE

\* pLimit(1): a function starts when fewer than one is running.
MayStartWrite(active) == active < 1

\* writeLimiter(fn): run fn now, or queue it behind the running one.
WriteRequested(pl, b) ==
  IF MayStartWrite(pl.writeActive)
  THEN [pl EXCEPT !.call[b].pc = "writing", !.writeActive = @ + 1]
  ELSE [pl EXCEPT !.call[b].pc = "queued", !.writeQueue = Append(@, b)]

\* pLimit: the running function settled; the head of the queue starts.
WriteSettled(pl) ==
  IF pl.writeQueue = << >> THEN [pl EXCEPT !.writeActive = @ - 1]
  ELSE [pl EXCEPT !.call[Head(pl.writeQueue)].pc = "writing",
                  !.writeQueue = Tail(@)]

\* main: findMany takes enrichBatchSize * concurrency games; chunk() cuts
\* them into n <= concurrency batches, each started through limit(); no
\* game ends the run.
PoolFind(n) ==
  /\ pool.mainPc = "find"
  /\ n <= pool.concurrency
  /\ n = 0 \/ pool.rounds < MaxRounds
  /\ pool' = IF n = 0 THEN [pool EXCEPT !.mainPc = "done"]
             ELSE [pool EXCEPT
                     !.mainPc = "awaitAll", !.rounds = @ + 1,
                     !.call = [b \in 1..MaxConcurrency |->
                                 IF b <= n THEN [pc |-> "fetching", attempt |-> 0]
                                 ELSE NoCall]]

\* enrichBatch: wbGetEntitiesFull and the label lookups answered and the
\* rows are parsed; the write is handed to writeLimiter.
PoolFetched(b) ==
  /\ pool.mainPc = "awaitAll"
  /\ pool.call[b].pc = "fetching"
  /\ pool' = WriteRequested(pool, b)

\* enrichBatch: a fetch throws; the call rejects.
PoolFetchThrows(b) ==
  /\ pool.mainPc = "awaitAll"
  /\ pool.call[b].pc = "fetching"
  /\ pool' = [pool EXCEPT !.call[b].pc = "rejected"]

\* withDbRetry: run() resolved, the transaction committed.
PoolWriteCommits(b) ==
  /\ pool.mainPc = "awaitAll"
  /\ pool.call[b].pc = "writing"
  /\ pool' = WriteSettled([pool EXCEPT !.call[b].pc = "resolved"])

\* withDbRetry: run() rejected. A retriable error with attempts left starts
\* the backoff sleep inside the limiter's function; any other is thrown.
PoolWriteThrows(b, code) ==
  /\ pool.mainPc = "awaitAll"
  /\ pool.call[b].pc = "writing"
  /\ pool' = IF IsRetriableDbError(code) /\ pool.call[b].attempt < DbRetries
             THEN [pool EXCEPT !.call[b].pc = "backoff"]
             ELSE WriteSettled([pool EXCEPT !.call[b].pc = "rejected"])

\* withDbRetry: the backoff sleep ends and run() is called again.
PoolBackoffEnds(b) ==
  /\ pool.mainPc = "awaitAll"
  /\ pool.call[b].pc = "backoff"
  /\ pool' = [pool EXCEPT !.call[b] = [pc |-> "writing", attempt |-> @.attempt + 1]]

\* main: Promise.all resolved; the cursor moves and the loop goes on.
PoolAllResolved ==
  /\ pool.mainPc = "awaitAll"
  /\ \A b \in 1..MaxConcurrency : pool.call[b].pc \in { "none", "resolved" }
  /\ pool' = [pool EXCEPT !.mainPc = "find",
                          !.call = [b \in 1..MaxConcurrency |-> NoCall]]

\* main: Promise.all rejected with the first rejection; main().catch logs it
\* and process.exit(1) ends every call still in flight.
PoolExits ==
  /\ pool.mainPc = "awaitAll"
  /\ \E b \in 1..MaxConcurrency : pool.call[b].pc = "rejected"
  /\ pool' = [pool EXCEPT !.mainPc = "exited",
                          !.call = [b \in 1..MaxConcurrency |-> NoCall],
                          !.writeActive = 0, !.writeQueue = << >>]

(***************************************************************************)
(* A run of a pipeline stage: the environment, the configuration loaded at *)
(* start-up, and the loop over the items of the stage                      *)
(***************************************************************************)

\* Bound of the model: the number of items (platforms, sources, titles,
\* games) a run works on.
MaxItems == 3

\* Bound of the model: DB_BATCH_SIZE of hydrateGamesFromMembership scaled
\* down.
ItemBatchSize == 2

\* parseWdqsPageSize: const fallback = 2000
DefaultPageSize == 2000

\* parseWdqsPageSize: if (parsed < 200) throw
MinPageSize == 200

VARIABLES
  run     \* process.env, the stage of the process and its options, CONFIG
          \* once loaded, the position of main, and what the run has done

runVars == << run >>

\* An environment variable that is not set (process.env.X === undefined);
\* a set one is the sequence of its characters.
Unset == << "undefined" >>

\* Values of WIKIDATA_USER_AGENT: none, blank, descriptive.
UserAgents == { "", " ", "vgdb/1.0 (ops@example.org)" }

\* The fallback of WikiClient's defaultUserAgent.
FallbackUserAgent == "video-game-db-app/0.1 (local-ingestion-script)"

\* Values of WDQS_PAGE_SIZE and of PAGE_SIZE.
PageSizeValues ==
  { Unset, << >>, << "x" >>, << "0" >>, << "-", "5" >>, << "1" >>,
    << "1", "9", "9" >>, << "2", "0", "0" >>, << "2", "0", "1" >>,
    << "2", "0", "0", "0" >>, << "1", "5", "0", "x" >>, << " ", "5", "0" >>,
    << "0", "5", "0", "0" >> }

LegacyPageSizeValues == { Unset, << "1", "0", "0" >>, << "5", "0", "0" >> }

DigitValue ==
  [c \in { "0", "1", "2", "3", "4", "5", "6", "7", "8", "9" } |->
     CASE c = "0" -> 0 [] c = "1" -> 1 [] c = "2" -> 2 [] c = "3" -> 3
       [] c = "4" -> 4 [] c = "5" -> 5 [] c = "6" -> 6 [] c = "7" -> 7
       [] c = "8" -> 8 [] c = "9" -> 9]

\* The longest prefix of digits of a string.
RECURSIVE DigitPrefix(_)
DigitPrefix(str) ==
  IF str = << >> \/ Head(str) \notin DOMAIN DigitValue THEN << >>
  ELSE << Head(str) >> \o DigitPrefix(Tail(str))

\* The number a string of digits denotes.
RECURSIVE DigitsValue(_)
DigitsValue(digits) ==
  IF digits = << >> THEN 0
  ELSE 10 * DigitsValue(SubSeq(digits, 1, Len(digits) - 1))
         + DigitValue[digits[Len(digits)]]

\* Number.parseInt(raw, 10): leading white space is skipped, then a sign
\* and the longest prefix of digits are read; << >> stands for NaN.
RECURSIVE ParseInt(_)
ParseInt(str) ==
  IF str # << >> /\ Head(str) = " " THEN ParseInt(Tail(str))
  ELSE LET negative == str # << >> /\ Head(str) = "-"
           digits == DigitPrefix(IF negative THEN Tail(str) ELSE str)
       IN IF digits = << >> THEN << >>
          ELSE << IF negative THEN 0 - DigitsValue(digits)
                  ELSE DigitsValue(digits) >>

\* parseWdqsPageSize whose floor is never applied.
PageSizeUnguarded(parsed) == FALSE

\* parseWdqsPageSize: parsed < 200
BelowMinPageSize(parsed) == parsed < MinPageSize

\* parseWdqsPageSize: the page size, or the error thrown for a parsed value
\* below the floor.
ParseWdqsPageSize(env) ==
  LET raw == IF env.WDQS_PAGE_SIZE # Unset THEN env.WDQS_PAGE_SIZE
             ELSE env.PAGE_SIZE
      parsed == ParseInt(raw)
  IN IF raw = Unset \/ raw = << >> THEN [thrown |-> FALSE, value |-> DefaultPageSize]
     ELSE IF parsed = << >> \/ parsed[1] <= 0
     THEN [thrown |-> FALSE, value |-> DefaultPageSize]
     ELSE [thrown |-> BelowMinPageSize(parsed[1]), value |-> parsed[1]]

\* requireUserAgent: CONFIG.userAgent.trim() is empty.
UserAgentMissing(userAgent) == userAgent \in { "", " " }

\* defaultUserAgent: WIKIDATA_USER_AGENT || USER_AGENT || the fallback.
DefaultUserAgent(env) ==
  IF env.WIKIDATA_USER_AGENT # "" THEN env.WIKIDATA_USER_AGENT
  ELSE FallbackUserAgent

\* The stages: fetchGamesByPlatform (CONFIG and wdqs), and the stages built
\* on WikiClient: hydrateGamesFromMembership, ingestPlatformRoster,
\* fetchWikiProjectVideoGamesLists.
Stages == { "crawl", "membership", "roster", "lists" }

Items == 1..MaxItems

NoConfig == [userAgent |-> "", wdqsPageSize |-> 0]

\* No process yet: the environment is set.
InitRun ==
  \E userAgent \in UserAgents, pageSize \in PageSizeValues,
     legacy \in LegacyPageSizeValues :
    run = [env |-> [WIKIDATA_USER_AGENT |-> userAgent,
                    WDQS_PAGE_SIZE |-> pageSize, PAGE_SIZE |-> legacy],
           stage |-> "none", reset |-> FALSE, pc |-> "env",
           config |-> NoConfig, error |-> "none", missing |-> {},
           i |-> 1, payloads |-> {}, failures |-> 0, fetched |-> {},
           written |-> {}, requests |-> {}, storeWrites |-> 0]

\* The process ends with exit code 1: main().catch, or a throw while the
\* modules load.
Exited(r, error) == [r EXCEPT !.pc = "exited", !.error = error]

\* The process of a stage starts: its imports are evaluated. The crawl
\* imports lib/config, whose CONFIG object calls parseWdqsPageSize.
StartProcess(stage, reset, missing) ==
  /\ run.pc = "env"
  /\ LET started == [run EXCEPT !.stage = stage, !.reset = reset,
                                !.missing = missing, !.pc = "main"]
         pageSize == ParseWdqsPageSize(run.env)
     IN run' = IF stage # "crawl" THEN started
               ELSE IF pageSize.thrown THEN Exited(started, "pageSize")
               ELSE [started EXCEPT
                       !.config = [userAgent |-> run.env.WIKIDATA_USER_AGENT,
                                   wdqsPageSize |-> pageSize.value]]

\* main up to its loop: the crawl's --reset-cursor updateMany and findMany;
\* the other stages read their work list and build a WikiClient.
MainBegins ==
  /\ run.pc = "main"
  /\ run' = [run EXCEPT
       !.pc = "loop",
       !.storeWrites = IF run.stage = "crawl" /\ run.reset THEN @ + 1 ELSE @]

\* main: the loop is over, the summary is logged.
MainEnds ==
  /\ run.pc = "loop"
  /\ run.i > MaxItems
  /\ run' = [run EXCEPT !.pc = "done"]

\* The item was fetched and its rows were written.
ItemDone(r) ==
  [r EXCEPT !.fetched = @ \cup { r.i }, !.written = @ \cup { r.i },
            !.storeWrites = @ + 1, !.i = @ + 1]

\* fetchGamesByPlatform: ingestPlatform's wdqs(query) for the next platform.
\* wdqs calls requireUserAgent, then sends the request; an error leaves
\* main.
CrawlQueries ==
  /\ run.pc = "loop" /\ run.stage = "crawl" /\ run.i <= MaxItems
  /\ run' = IF UserAgentMissing(run.config.userAgent)
            THEN Exited(run, "userAgent")
            ELSE LET sent == [run EXCEPT
                               !.requests = @ \cup { run.config.userAgent }]
                 IN IF run.i \in run.missing THEN Exited(sent, "item")
                    ELSE ItemDone(sent)

\* The run after a WikiClient request for its next item.
Requested(r) == [r EXCEPT !.requests = @ \cup { DefaultUserAgent(r.env) }]

\* ingestPlatformRoster and fetchWikiProjectVideoGamesLists: the body of
\* `for (const source of sources)` / `for (const title of titles)`;
\* getOrFetchWikiPage throws for a missing page and the error leaves main.
PageLoopStep ==
  /\ run.pc = "loop" /\ run.stage \in { "roster", "lists" }
  /\ run.i <= MaxItems
  /\ run' = IF run.i \in run.missing THEN Exited(Requested(run), "item")
            ELSE ItemDone(Requested(run))

\* hydrateGamesFromMembership: the limit() callback of one game of the
\* batch: getOrFetchWikidataEntity throws for a missing entity, the catch
\* counts it and returns null.
MembershipFetches ==
  /\ run.pc = "loop" /\ run.stage = "membership" /\ run.i <= MaxItems
  /\ LET asked == Requested(run)
         got == IF run.i \in run.missing
                THEN [asked EXCEPT !.failures = @ + 1]
                ELSE [asked EXCEPT !.fetched = @ \cup { run.i },
                                   !.payloads = @ \cup { run.i }]
     IN run' = IF run.i % ItemBatchSize = 0 \/ run.i = MaxItems
               THEN [got EXCEPT !.pc = "upsert"]
               ELSE [got EXCEPT !.i = @ + 1]

\* hydrateGamesFromMembership: `for (const payload of payloads)`: the
\* upserts of every payload of the batch that is not null.
MembershipUpserts ==
  /\ run.pc = "upsert"
  /\ run' = [run EXCEPT
       !.pc = "loop", !.i = @ + 1, !.payloads = {},
       !.written = @ \cup run.payloads,
       !.storeWrites = @ + Cardinality(run.payloads)]

(***************************************************************************)
(* flagJunkGames: the data-quality cleanup                                 *)
(***************************************************************************)

\* Bound of the model: `take: 500` of flagJunkGames' findMany scaled down.
JunkPageSize == 1

VARIABLES
  junkDb,    \* the Game table: per stored game its title, whether it was
             \* enriched, its claimsJson, isJunk and junkReason
  junk       \* flagJunkGames: position, cursor, the page read, the updates
             \* to write, and how many enrichment writes happened meanwhile

junkVars == << junkDb, junk >>

JunkQids == { <<1>>, <<1, 0>> }

\* A title is the entity's label, or the bare QID when it has none.
JunkTitles == { "Doom", "Q1" }

\* The contents enrichGames or the crawler leave in a Game row: a stub was
\* never enriched and has no claims.
GameContents ==
  { [title |-> t, lastEnrichedAt |-> e, claimsJson |-> c] :
      t \in JunkTitles, e \in BOOLEAN, c \in { "null", "claims" } }
    \ { g \in [title : JunkTitles, lastEnrichedAt : { FALSE },
               claimsJson : { "claims" }] : TRUE }

\* isJunk and junkReason as flagJunkGames leaves them.
JunkFlags ==
  { [isJunk |-> FALSE, junkReason |-> "null"] }
    \cup { [isJunk |-> TRUE, junkReason |-> r] :
             r \in { "missing_label", "missing_claims", "missing_entity" } }

Flagged(content, flags) ==
  [title |-> content.title, lastEnrichedAt |-> content.lastEnrichedAt,
   claimsJson |-> content.claimsJson, isJunk |-> flags.isJunk,
   junkReason |-> flags.junkReason]

NoJunkRun == [pc |-> "idle", cursorQid |-> NullQid, games |-> << >>,
              updates |-> << >>, writes |-> 0]

\* Some games are stored, flagged or not by earlier runs.
InitJunk ==
  /\ \E stored \in (SUBSET JunkQids) \ { {} } :
       junkDb \in [stored -> { Flagged(c, f) : c \in GameContents, f \in JunkFlags }]
  /\ junk = NoJunkRun

\* isQidTitle
IsQidTitle(title) == title = "Q1"

\* flagJunkGames that looks at flagged games again.
NeverSkipsGame(game) == FALSE

\* main: if (game.isJunk) continue
SkipsGame(game) == game.isJunk

\* main: the reason pushed for a game of the page (<< >> when none is).
JunkReasonOf(game) ==
  IF SkipsGame(game) THEN << >>
  ELSE IF ~game.lastEnrichedAt THEN << "missing_claims" >>
  ELSE IF game.claimsJson = "null" THEN << "missing_entity" >>
  ELSE IF IsQidTitle(game.title) THEN << "missing_label" >>
  ELSE << >>

\* main: the updates of a page, in page order.
RECURSIVE JunkUpdates(_)
JunkUpdates(page) ==
  IF page = << >> THEN << >>
  ELSE (IF JunkReasonOf(Head(page).row) = << >> THEN << >>
        ELSE << [qid |-> Head(page).qid,
                 reason |-> JunkReasonOf(Head(page).row)[1]] >>)
       \o JunkUpdates(Tail(page))

\* main: findMany({ where: qid > cursorQid, orderBy: qid asc, take }).
JunkFindMany(cursorQid, take) ==
  LET found == SortedSeq({ q \in DOMAIN junkDb :
                             cursorQid = NullQid \/ LexLess(cursorQid, q) })
      n == IF Len(found) < take THEN Len(found) ELSE take
  IN [k \in 1..n |-> [qid |-> found[k], row |-> junkDb[found[k]]]]

\* A run of flagJunkGames starts (an earlier one has ended or was killed).
StartFlagJunk ==
  /\ junk.pc \in { "idle", "done", "write" }
  /\ junk' = [NoJunkRun EXCEPT !.pc = "find"]
  /\ UNCHANGED junkDb

\* main: one findMany and the scan of its page (cursorQid = game.qid, the
\* updates are collected); an empty page ends the loop.
FlagJunkScan ==
  /\ junk.pc = "find"
  /\ LET page == JunkFindMany(junk.cursorQid, JunkPageSize)
     IN junk' = IF page = << >> THEN [junk EXCEPT !.pc = "done", !.games = << >>]
                ELSE [junk EXCEPT
                        !.pc = IF JunkUpdates(page) = << >> THEN "find"
                               ELSE "write",
                        !.games = page,
                        !.updates = JunkUpdates(page),
                        !.cursorQid = page[Len(page)].qid]
  /\ UNCHANGED junkDb

\* main: prisma.$transaction(updates.map(game.update({ isJunk: true,
\* junkReason }))).
FlagJunkWrite ==
  /\ junk.pc = "write"
  /\ junkDb' = [q \in DOMAIN junkDb |->
                  IF \E k \in DOMAIN junk.updates : junk.updates[k].qid = q
                  THEN LET u == CHOOSE k \in DOMAIN junk.updates :
                                  junk.updates[k].qid = q
                       IN [junkDb[q] EXCEPT
                             !.isJunk = TRUE,
                             !.junkReason = junk.updates[u].reason]
                  ELSE junkDb[q]]
  /\ junk' = [junk EXCEPT !.pc = "find", !.updates = << >>]

\* enrichGames writes a game while the cleanup runs (or between two runs):
\* its title, lastEnrichedAt and claimsJson; the flags are not in its data.
JunkEnrichWrites(q, content) ==
  /\ junk.writes < MaxUpstreamEdits
  /\ q \in DOMAIN junkDb
  /\ content.lastEnrichedAt
  /\ junkDb' = [junkDb EXCEPT
                  ![q] = Flagged(content, [isJunk |-> @.isJunk,
                                           junkReason |-> @.junkReason])]
  /\ junk' = [junk EXCEPT !.writes = @ + 1]

(***************************************************************************)
(* hydrateGamesFromMembership: the derived rows of the membership games    *)
(***************************************************************************)

\* Bounds of the model: runs of the script, and P577 statements of a game.
MaxMemberRuns == 2
MaxDateStatements == 2

VARIABLES
  memberCache,  \* the cached entity of each membership game, or
                \* MissingEntity when its fetch fails
  memberDb,     \* the derived tables the script writes, as bags of rows
  member        \* the script: position, run number, the payloads left,
                \* and the tables as the first run left them

memberVars == << memberCache, memberDb, member >>

MemberGames == { <<1>>, <<2>> }
MemberTables == { "releaseDate", "gameTag", "gameCompany", "gamePlatform" }

\* P577 statements; a statement may carry no id.
MemberDateStatements ==
  { TimeStmt(id, "normal", t[1], t[2], t[3], t[4], Null) :
      id \in { Null, "s1", "s2" },
      t \in { << 1998, 11, 23, 11 >>, << 1999, 0, 0, 9 >> } }

\* The statement lists of an entity: statement ids are not repeated.
MemberDateLists ==
  { sts \in UNION { [1..n -> MemberDateStatements] : n \in 0..MaxDateStatements } :
      \A i, j \in DOMAIN sts :
        (i # j /\ sts[i].id # Null) => sts[i].id # sts[j].id }

\* Cached entities: claims for P577, P136 (genre), P178 and P123.
MemberEntities ==
  [P577 : MemberDateLists,
   P136 : { << >>, << Stmt("s5", "normal", "Q_RPG") >> },
   P178 : { << >>, << Stmt("s6", "normal", "Q_DEV") >> },
   P123 : { << >>, << Stmt("s7", "normal", "Q_DEV") >> },
   platforms : (SUBSET PlatformQids) \ { {} }]

\* The entity of the second game: cached, or its fetch fails.
OtherEntities ==
  { MissingEntity,
    [P577 |-> << TimeStmt("s8", "preferred", 2001, 3, 0, 10, Null) >>,
     P136 |-> << >>, P178 |-> << >>, P123 |-> << >>,
     platforms |-> { "Q_PC" }] }

NoMemberRun == [pc |-> "idle", run |-> 0, payloads |-> << >>,
                failures |-> 0, created |-> 0, afterFirst |-> << >>]

InitMember ==
  /\ \E e \in MemberEntities, o \in OtherEntities :
       memberCache = (<<1>> :> e) @@ (<<2>> :> o)
  /\ memberDb = [t \in MemberTables |-> EmptyBag]
  /\ member = NoMemberRun

\* upsertReleaseDates: the rows of the claims that have a year.
ReleaseDateRows(qid, claims) ==
  LET dated == SelectSeq(claims, LAMBDA c : c.year # NoNumber)
  IN [k \in DOMAIN dated |->
        LET c == dated[k]
            category == ToReleaseDateCategory(c.precision, c.month, c.day)
        IN [gameQid |-> qid, category |-> category,
            date |-> ToUtcDate(c.year, c.month, c.day),
            year |-> c.year, month |-> c.month, day |-> c.day,
            precision |-> c.precision,
            human |-> BuildReleaseDateHuman(c.year, c.month, c.day, category),
            source |-> "wikidata:P577", claimId |-> c.claimId]]

\* upsertGenres: one GameTag row per genre id.
GameTagRows(qid, entity) ==
  LET ids == ExtractValues(entity.P136)
  IN [k \in DOMAIN ids |-> [gameQid |-> qid, tagId |-> ids[k].value]]

\* upsertCompanies: one GameCompany row per company and role.
GameCompanyRows(qid, entity) ==
  LET devs == ExtractValues(entity.P178)
      pubs == ExtractValues(entity.P123)
  IN [k \in DOMAIN devs |->
        [gameQid |-> qid, companyQid |-> devs[k].value, role |-> "DEVELOPER"]]
     \o [k \in DOMAIN pubs |->
        [gameQid |-> qid, companyQid |-> pubs[k].value, role |-> "PUBLISHER"]]

\* attachPlatforms: one GamePlatform row per membership platform, in the
\* order of the memberships (platformQid asc).
GamePlatformRows(qid, entity) ==
  LET ps == SelectSeq(<< "Q_PC", "Q_PS" >>, LAMBDA p : p \in entity.platforms)
  IN [k \in DOMAIN ps |->
        [gameQid |-> qid, platformQid |-> ps[k],
         source |-> "platform-membership"]]

\* The rows one payload gives to a table.
MemberRows(table, qid, entity) ==
  CASE table = "releaseDate" ->
         ReleaseDateRows(qid, ExtractReleaseDateClaims(entity))
    [] table = "gameTag" -> GameTagRows(qid, entity)
    [] table = "gameCompany" -> GameCompanyRows(qid, entity)
    [] table = "gamePlatform" -> GamePlatformRows(qid, entity)

\* The number of rows held by the derived tables.
MemberRowCount(tables) ==
  BagCardinality(tables["releaseDate"]) + BagCardinality(tables["gameTag"])
    + BagCardinality(tables["gameCompany"])
    + BagCardinality(tables["gamePlatform"])

\* main: a run of the script starts; the games of the memberships, sorted.
StartMembership ==
  /\ member.pc \in { "idle", "done" }
  /\ member.run < MaxMemberRuns
  /\ member' = [member EXCEPT
       !.pc = "upsert", !.run = @ + 1, !.failures = 0, !.created = 0,
       !.payloads = SortedSeq(MemberGames),
       !.afterFirst = IF member.run = 1 THEN memberDb ELSE @]
  /\ UNCHANGED << memberCache, memberDb >>

\* main: the limit callback catches the failed fetch of a game: no payload.
MemberFetchFails ==
  /\ member.pc = "upsert" /\ member.payloads # << >>
  /\ memberCache[Head(member.payloads)] = MissingEntity
  /\ member' = [member EXCEPT !.payloads = Tail(@), !.failures = @ + 1]
  /\ UNCHANGED << memberCache, memberDb >>

\* main: one payload: upsertGameCore, upsertReleaseDates, upsertGenres,
\* upsertCompanies and attachPlatforms, each a createMany with
\* skipDuplicates and no delete before it.
HydratePayload ==
  /\ member.pc = "upsert" /\ member.payloads # << >>
  /\ memberCache[Head(member.payloads)] # MissingEntity
  /\ LET qid == Head(member.payloads)
         written == [t \in MemberTables |->
                       CreateMany(t, memberDb[t],
                                  MemberRows(t, qid, memberCache[qid]))]
     IN /\ memberDb' = written
        /\ member' = [member EXCEPT
             !.payloads = Tail(@),
             !.created = @ + MemberRowCount(written) - MemberRowCount(memberDb)]
  /\ UNCHANGED memberCache

\* main: the last payload is written, the summary is logged.
MembershipEnds ==
  /\ member.pc = "upsert" /\ member.payloads = << >>
  /\ member' = [member EXCEPT !.pc = "done"]
  /\ UNCHANGED << memberCache, memberDb >>

(***************************************************************************)
(* parseBatch on one candidate game with a whole claims document           *)
(***************************************************************************)

VARIABLES
  norm   \* the candidate game handed to parseBatch, the --include-niche
         \* option, and the BatchRows parseBatch returned

normVars == << norm >>

\* Properties the registry does not hydrate: one with status ignore, one
\* with no entry, and the niche one.
InactiveStatements ==
  [ P279 |-> << Stmt("u1", "normal", "Q_KIND") >>,
    P2000 |-> << Stmt("u2", "preferred", "Q_PS"),
                 TimeStmt("u3", "preferred", 1990, 1, 1, 11, Null) >>,
    P1651 |-> << Stmt("u4", "preferred", "yt2") >> ]

\* The property ids that are not in the active registry.
InactiveProperties(includeNiche) ==
  { "P279", "P2000" } \cup (IF includeNiche THEN {} ELSE { "P1651" })

\* The document with the statements of the properties in ps replaced.
WithProperties(claims, ps) ==
  [p \in DOMAIN claims \cup ps |->
     IF p \in ps THEN InactiveStatements[p] ELSE claims[p]]

\* The document without the properties in ps.
WithoutProperties(claims, ps) ==
  [p \in DOMAIN claims \ ps |-> claims[p]]

\* The scalar columns a game with this document may hold before a
\* normalization run: none, values derived before, or the ones enrichBatch
\* wrote with the document (buildGameUpdate).
EarlierScalars(claims) ==
  StoredScalars
    \cup { [f \in { "releaseYear", "firstReleaseAt", "imageCommons" } |->
             BuildGameUpdate(<< 1 >>, claims).data[f]] }

NotNormalized == [parsed |-> FALSE]

\* A game whose document holds statements of hydrated and of other
\* properties, and whose scalar columns were or were not derived before.
\* Game.claimsJson as a stage writes it for an entity with these claims:
\* enrichGames stores entity.claims (buildGameUpdate), and
\* hydrateGamesFromMembership stores the entity (buildHydratePayload).
ClaimsJsonWrittenBy(writer, claims) ==
  IF writer = "enrichGames" THEN BuildGameUpdate(<< 1 >>, claims).data.claimsJson
  ELSE [id |-> << 1 >>, claims |-> claims]

\* buildHydratePayload: releaseYear, and firstReleaseAt of the first claim
\* of the least year; upsertGameCore writes no image.
MembershipScalars(claims) ==
  LET cs == SelectSeq(ExtractReleaseDateClaims(claims),
                      LAMBDA c : c.year # NoNumber)
      first == CHOOSE i \in DOMAIN cs :
                 /\ \A j \in DOMAIN cs : cs[i].year <= cs[j].year
                 /\ \A j \in DOMAIN cs : cs[j].year = cs[i].year => i <= j
  IN [releaseYear |-> ExtractReleaseYear(claims),
      firstReleaseAt |-> IF cs = << >> THEN NoDate
                         ELSE ToUtcDate(cs[first].year, cs[first].month,
                                        cs[first].day),
      imageCommons |-> Null]

\* A game whose entity holds statements of hydrated and of other
\* properties, whose claimsJson was last written by one of the two stages,
\* and whose scalar columns were or were not derived before.
InitNorm ==
  \E base \in { DocFull, DocTrimmed, DocOdd, DocCase, DocEmpty },
     ps \in SUBSET DOMAIN InactiveStatements,
     writer \in { "enrichGames", "hydrateGamesFromMembership" } :
    \E stored \in (IF writer = "enrichGames"
                   THEN EarlierScalars(WithProperties(base, ps))
                   ELSE { MembershipScalars(WithProperties(base, ps)) }) :
    norm = [game |-> CandidateOf(<< 1 >>,
                       ClaimsJsonWrittenBy(writer, WithProperties(base, ps)),
                       stored),
            entity |-> WithProperties(base, ps), writer |-> writer,
            includeNiche |-> TRUE, result |-> NotNormalized]

\* main: getHydratableRegistryEntries(options.includeNiche) and
\* parseBatch(games, entries) on the game.
NormalizeGame(includeNiche) ==
  /\ ~norm.result.parsed
  /\ norm' = [norm EXCEPT
       !.includeNiche = includeNiche,
       !.result = [parsed |-> TRUE,
                   batch |-> ParseBatch(<< norm.game >>,
                               GetHydratableRegistryEntries(includeNiche))]]

(***************************************************************************)
(* hydrateGamesFromClaims: the batch loop of main over a finite table      *)
(***************************************************************************)

\* Bound of the model: the greatest --batch-size and --max-games drawn.
MaxScanOption == 2

VARIABLE
  scan   \* the Game table (per QID: no row, a row without claimsJson or a
         \* row with it), the options and the variables of main's loop

scanVars == << scan >>

\* "Q1" < "Q10" < "Q2" in the order of the qid column.
ScanQids == { << 1 >>, << 1, 0 >>, << 2 >> }

\* parseOptionalPositiveInt: null when --max-games is absent.
NoCap == 0

NoScan ==
  [table |-> [q \in ScanQids |-> "absent"], pc |-> "parked",
   batchSize |-> 1, maxGames |-> NoCap, cursorQid |-> NullQid,
   processed |-> 0, batchIndex |-> 0, errors |-> 0, games |-> << >>]

\* main: parseCliOptions; cursorQid = null, processed = batchIndex = errors
\* = 0, over any Game table.
InitScan ==
  \E table \in [ScanQids -> { "absent", "jsonNull", "claims" }],
     batchSize \in 1..MaxScanOption,
     maxGames \in { NoCap } \cup 1..MaxScanOption :
    scan = [NoScan EXCEPT !.table = table, !.pc = "find",
                          !.batchSize = batchSize, !.maxGames = maxGames]

\* main: remaining = maxGames !== null ? Math.max(maxGames - processed, 0)
\* : null; the findMany takes batchSize or Math.min(batchSize, remaining).
ScanTake ==
  IF scan.maxGames = NoCap THEN scan.batchSize
  ELSE Min2(scan.batchSize, Max2(scan.maxGames - scan.processed, 0))

\* prisma.game.findMany({ where: qid > cursorQid, claimsJson not JsonNull,
\* orderBy: qid asc, take }).
ScanFindMany ==
  LET found == SortedSeq({ q \in ScanQids :
                             /\ scan.table[q] = "claims"
                             /\ \/ scan.cursorQid = NullQid
                                \/ LexLess(scan.cursorQid, q) })
      page == SubSeq(found, 1, Min2(Len(found), ScanTake))
  IN [k \in DOMAIN page |-> [qid |-> page[k]]]

\* main: the head of one loop iteration: break when the cap is used up or
\* the findMany is empty, else batchIndex += 1 and the batch is tried.
ScanFind ==
  /\ scan.pc = "find"
  /\ IF (scan.maxGames # NoCap /\ ScanTake <= 0) \/ ScanFindMany = << >>
     THEN scan' = [scan EXCEPT !.pc = "done"]
     ELSE scan' = [scan EXCEPT !.pc = "write", !.games = ScanFindMany,
                               !.batchIndex = @ + 1]

\* main: parseBatch and applyBatch return: processed += games.length and
\* the cursor moves to the last game of the batch.
ScanBatchWritten ==
  /\ scan.pc = "write"
  /\ scan' = [scan EXCEPT !.pc = "find",
                          !.processed = @ + Len(scan.games),
                          !.cursorQid = NextCursor(scan.games, @)]

\* main: parseBatch or applyBatch throws: the catch counts the error and
\* moves the cursor to the last game of the batch; processed is unchanged.
ScanBatchFails ==
  /\ scan.pc = "write"
  /\ scan' = [scan EXCEPT !.pc = "find", !.errors = @ + 1,
                          !.cursorQid = NextCursor(scan.games, @)]

(***************************************************************************)
(* Platform stages: setMajorPlatforms, importPlatformGroupings and the     *)
(* start of fetchGamesByPlatform                                           *)
(***************************************************************************)

\* Bound of the model: CONFIG.majorPlatformsTopN scaled down.
MajorPlatformsTopN == 1

\* CONFIG.majorPlatformsMinSitelinks (MAJOR_PLATFORM_MIN_SITELINKS)
MajorPlatformsMinSitelinks == 8

VARIABLE
  plat   \* the Platform table, the seed and override files, CONFIG's
         \* include list, the stage about to run, and (history) the
         \* platforms setMajorPlatforms marked

platVars == << plat >>

\* The platforms, in the order of their names.
PlatQids == << "Q_A", "Q_B", "Q_C" >>

PlatSet == { PlatQids[i] : i \in DOMAIN PlatQids }

NoPlatformRow ==
  [exists |-> FALSE, sitelinks |-> 0, isMajor |-> FALSE,
   wikiProjectGameCount |-> 0]

\* A Platform row as seedPlatforms stores it (isMajor defaults to false).
SeededPlatform(sitelinks) ==
  [NoPlatformRow EXCEPT !.exists = TRUE, !.sitelinks = sitelinks]

NoStages ==
  [pc |-> "parked", platform |-> [q \in PlatSet |-> NoPlatformRow],
   seed |-> {}, overrides |-> [q \in PlatSet |-> "absent"],
   includeQids |-> {}, marked |-> {}, crawled |-> {}]

\* The stages are about to run in the documented order, over any Platform
\* table, seed file, override file and include list.
InitStages ==
  \E table \in [PlatSet -> { NoPlatformRow, SeededPlatform(3),
                             SeededPlatform(20) }],
     seed \in SUBSET PlatSet,
     overrides \in [PlatSet -> { "absent", "true", "false" }],
     includeQids \in { {}, { "Q_C" } } :
    plat = [NoStages EXCEPT !.pc = "major", !.platform = table,
                            !.seed = seed, !.overrides = overrides,
                            !.includeQids = includeQids]

\* findMany({ where: sitelinks >= min, orderBy: sitelinks desc, name asc,
\* take: topN }): the qids found.
RankedPlatforms ==
  LET eligible == { i \in DOMAIN PlatQids :
                      /\ plat.platform[PlatQids[i]].exists
                      /\ plat.platform[PlatQids[i]].sitelinks
                           >= MajorPlatformsMinSitelinks }
      Before(i, j) ==
        \/ plat.platform[PlatQids[i]].sitelinks
             > plat.platform[PlatQids[j]].sitelinks
        \/ /\ plat.platform[PlatQids[i]].sitelinks
                = plat.platform[PlatQids[j]].sitelinks
           /\ i < j
  IN { PlatQids[i] : i \in { k \in eligible :
         Cardinality({ j \in eligible : Before(j, k) }) < MajorPlatformsTopN } }

\* setMajorPlatforms, main: throws on an empty table; else every platform
\* is set to isMajor false and the ranked and included ones to true.
SetMajorPlatforms ==
  /\ plat.pc = "major"
  /\ IF \A q \in PlatSet : ~plat.platform[q].exists
     THEN plat' = [plat EXCEPT !.pc = "failed"]
     ELSE LET majorQids == RankedPlatforms \cup plat.includeQids
              updated == [q \in PlatSet |->
                            IF plat.platform[q].exists
                            THEN [plat.platform[q] EXCEPT
                                    !.isMajor = (q \in majorQids)]
                            ELSE plat.platform[q]]
          IN plat' = [plat EXCEPT
               !.pc = "groupings", !.platform = updated,
               !.marked = { q \in PlatSet : updated[q].isMajor }]

\* importPlatformGroupings, main: isMajor = row.overrideIsMajor ?? false
OverrideIsMajor(q) == plat.overrides[q] = "true"

\* importPlatformGroupings, main: every row of the seed file updates its
\* platform (count, sample, isMajor) or creates it.
ImportPlatformGroupings ==
  /\ plat.pc = "groupings"
  /\ plat' = [plat EXCEPT
       !.pc = "crawl",
       !.platform = [q \in PlatSet |->
                       IF q \notin plat.seed THEN @[q]
                       ELSE IF @[q].exists
                       THEN [@[q] EXCEPT !.wikiProjectGameCount = 10,
                                         !.isMajor = OverrideIsMajor(q)]
                       ELSE [exists |-> TRUE, sitelinks |-> 0,
                             isMajor |-> OverrideIsMajor(q),
                             wikiProjectGameCount |-> 10]]]

\* fetchGamesByPlatform, main: the platforms with isMajor true are crawled;
\* the run throws when there is none.
CrawlStarts ==
  /\ plat.pc = "crawl"
  /\ LET found == { q \in PlatSet :
                      plat.platform[q].exists /\ plat.platform[q].isMajor }
     IN plat' = [plat EXCEPT !.pc = IF found = {} THEN "failed" ELSE "crawling",
                             !.crawled = found]

(***************************************************************************)
(* Specifications: each component runs while the other ones are at rest.   *)
(***************************************************************************)

vars ==
  << crawlVars, cacheVars, batchVars, parseVars, fetchVars, gateVars,
     poolVars, runVars, junkVars, memberVars, normVars, scanVars, platVars >>

\* The crawler at rest, with nothing upstream and nothing stored.
ParkedCrawl == InitCrawl /\ roster = [p \in Platforms |-> {}]

\* The cache at rest, empty, with nothing upstream.
ParkedCache ==
  InitCache /\ upstream = [k \in CacheKeys |-> [rev |-> 0, missing |-> TRUE]]

\* parseBatch at rest, on a stub without claims.
ParkedParse ==
  /\ parseGame = CandidateOf(<< 1 >>, JsonNull, GameStub)
  /\ parseResult = NotParsed

\* No call of a fetcher in progress.
ParkedFetch ==
  http = [fetcher |-> "none", retries |-> 0, pc |-> "returned", attempt |-> 0,
          backoff |-> 0, now |-> 0, requests |-> 0, response |-> NoResponse,
          wait |-> NoWait, error |-> NoError]

\* No stage run: the environment of a process that never starts.
ParkedRun ==
  run = [env |-> [WIKIDATA_USER_AGENT |-> "", WDQS_PAGE_SIZE |-> Unset,
                  PAGE_SIZE |-> Unset],
         stage |-> "none", reset |-> FALSE, pc |-> "parked",
         config |-> NoConfig, error |-> "none", missing |-> {},
         i |-> 1, payloads |-> {}, failures |-> 0, fetched |-> {},
         written |-> {}, requests |-> {}, storeWrites |-> 0]

\* No cleanup run and an empty Game table.
ParkedJunk ==
  /\ junkDb = << >>
  /\ junk = [NoJunkRun EXCEPT !.pc = "parked"]

\* hydrateGamesFromMembership not running, nothing cached.
ParkedMember ==
  /\ memberCache = << >>
  /\ memberDb = << >>
  /\ member = [NoMemberRun EXCEPT !.pc = "parked"]

\* No platform stage running.
ParkedStages == plat = NoStages

\* hydrateGamesFromClaims not running.
ParkedScan == scan = NoScan

\* No game handed to parseBatch.
ParkedNorm == norm = [game |-> Null, entity |-> Null, writer |-> Null,
                      includeNiche |-> TRUE, result |-> [parsed |-> TRUE]]

\* enrichGames not running.
ParkedPool ==
  pool = [mainPc |-> "done", concurrency |-> 1, rounds |-> 0,
          call |-> [b \in 1..MaxConcurrency |-> NoCall],
          writeActive |-> 0, writeQueue |-> << >>]

\* The components a specification leaves at rest.
ParkedButCrawl ==
  /\ ParkedCache /\ InitBatch /\ ParkedParse /\ ParkedFetch /\ InitGate
  /\ ParkedPool /\ ParkedRun /\ ParkedJunk /\ ParkedMember /\ ParkedNorm
  /\ ParkedScan /\ ParkedStages
ParkedButCache ==
  /\ ParkedCrawl /\ InitBatch /\ ParkedParse /\ ParkedFetch /\ InitGate
  /\ ParkedPool /\ ParkedRun /\ ParkedJunk /\ ParkedMember /\ ParkedNorm
  /\ ParkedScan /\ ParkedStages
ParkedButBatch ==
  /\ ParkedCrawl /\ ParkedCache /\ ParkedParse /\ ParkedFetch /\ InitGate
  /\ ParkedPool /\ ParkedRun /\ ParkedJunk /\ ParkedMember /\ ParkedNorm
  /\ ParkedScan /\ ParkedStages
ParkedButParse ==
  /\ ParkedCrawl /\ ParkedCache /\ InitBatch /\ ParkedFetch /\ InitGate
  /\ ParkedPool /\ ParkedRun /\ ParkedJunk /\ ParkedMember /\ ParkedNorm
  /\ ParkedScan /\ ParkedStages
ParkedButFetch ==
  /\ ParkedCrawl /\ ParkedCache /\ InitBatch /\ ParkedParse /\ InitGate
  /\ ParkedPool /\ ParkedRun /\ ParkedJunk /\ ParkedMember /\ ParkedNorm
  /\ ParkedScan /\ ParkedStages
ParkedButGate ==
  /\ ParkedCrawl /\ ParkedCache /\ InitBatch /\ ParkedParse /\ ParkedFetch
  /\ ParkedPool /\ ParkedRun /\ ParkedJunk /\ ParkedMember /\ ParkedNorm
  /\ ParkedScan /\ ParkedStages
ParkedButPool ==
  /\ ParkedCrawl /\ ParkedCache /\ InitBatch /\ ParkedParse /\ ParkedFetch
  /\ InitGate /\ ParkedRun /\ ParkedJunk /\ ParkedMember /\ ParkedNorm
  /\ ParkedScan /\ ParkedStages
ParkedButRun ==
  /\ ParkedCrawl /\ ParkedCache /\ InitBatch /\ ParkedParse /\ ParkedFetch
  /\ InitGate /\ ParkedPool /\ ParkedJunk /\ ParkedMember /\ ParkedNorm
  /\ ParkedScan /\ ParkedStages
ParkedButJunk ==
  /\ ParkedCrawl /\ ParkedCache /\ InitBatch /\ ParkedParse /\ ParkedFetch
  /\ InitGate /\ ParkedPool /\ ParkedRun /\ ParkedMember /\ ParkedNorm
  /\ ParkedScan /\ ParkedStages
ParkedButMember ==
  /\ ParkedCrawl /\ ParkedCache /\ InitBatch /\ ParkedParse /\ ParkedFetch
  /\ InitGate /\ ParkedPool /\ ParkedRun /\ ParkedJunk /\ ParkedNorm
  /\ ParkedScan /\ ParkedStages
ParkedButNorm ==
  /\ ParkedCrawl /\ ParkedCache /\ InitBatch /\ ParkedParse /\ ParkedFetch
  /\ InitGate /\ ParkedPool /\ ParkedRun /\ ParkedJunk /\ ParkedMember
  /\ ParkedScan /\ ParkedStages
ParkedButScan ==
  /\ ParkedCrawl /\ ParkedCache /\ InitBatch /\ ParkedParse /\ ParkedFetch
  /\ InitGate /\ ParkedPool /\ ParkedRun /\ ParkedJunk /\ ParkedMember
  /\ ParkedNorm /\ ParkedStages
ParkedButStages ==
  /\ ParkedCrawl /\ ParkedCache /\ InitBatch /\ ParkedParse /\ ParkedFetch
  /\ InitGate /\ ParkedPool /\ ParkedRun /\ ParkedJunk /\ ParkedMember
  /\ ParkedNorm /\ ParkedScan

CrawlOnly ==
  UNCHANGED << cacheVars, batchVars, parseVars, fetchVars, gateVars,
               poolVars, runVars, junkVars, memberVars, normVars, scanVars,
               platVars >>
CacheOnly ==
  UNCHANGED << crawlVars, batchVars, parseVars, fetchVars, gateVars,
               poolVars, runVars, junkVars, memberVars, normVars, scanVars,
               platVars >>
BatchOnly ==
  UNCHANGED << crawlVars, cacheVars, parseVars, fetchVars, gateVars,
               poolVars, runVars, junkVars, memberVars, normVars, scanVars,
               platVars >>
ParseOnly ==
  UNCHANGED << crawlVars, cacheVars, batchVars, fetchVars, gateVars,
               poolVars, runVars, junkVars, memberVars, normVars, scanVars,
               platVars >>
FetchOnly ==
  UNCHANGED << crawlVars, cacheVars, batchVars, parseVars, gateVars,
               poolVars, runVars, junkVars, memberVars, normVars, scanVars,
               platVars >>
GateOnly ==
  UNCHANGED << crawlVars, cacheVars, batchVars, parseVars, fetchVars,
               poolVars, runVars, junkVars, memberVars, normVars, scanVars,
               platVars >>
PoolOnly ==
  UNCHANGED << crawlVars, cacheVars, batchVars, parseVars, fetchVars,
               gateVars, runVars, junkVars, memberVars, normVars, scanVars,
               platVars >>
RunOnly ==
  UNCHANGED << crawlVars, cacheVars, batchVars, parseVars, fetchVars,
               gateVars, poolVars, junkVars, memberVars, normVars,
               scanVars, platVars >>
JunkOnly ==
  UNCHANGED << crawlVars, cacheVars, batchVars, parseVars, fetchVars,
               gateVars, poolVars, runVars, memberVars, normVars, scanVars,
               platVars >>
MemberOnly ==
  UNCHANGED << crawlVars, cacheVars, batchVars, parseVars, fetchVars,
               gateVars, poolVars, runVars, junkVars, normVars, scanVars,
               platVars >>
NormOnly ==
  UNCHANGED << crawlVars, cacheVars, batchVars, parseVars, fetchVars,
               gateVars, poolVars, runVars, junkVars, memberVars, scanVars,
               platVars >>
ScanOnly ==
  UNCHANGED << crawlVars, cacheVars, batchVars, parseVars, fetchVars,
               gateVars, poolVars, runVars, junkVars, memberVars, normVars,
               platVars >>
StagesOnly ==
  UNCHANGED << crawlVars, cacheVars, batchVars, parseVars, fetchVars,
               gateVars, poolVars, runVars, junkVars, memberVars, normVars,
               scanVars >>

InitSpecCrawl == InitCrawl /\ ParkedButCrawl

NextCrawl ==
  \/ \E sel \in (SUBSET Platforms) \ {{}}, reset \in BOOLEAN :
        StartMain(sel, reset) /\ CrawlOnly
  \/ ResetCursor /\ CrawlOnly
  \/ \E take \in 0..Cardinality(Platforms) : FindPlatforms(take) /\ CrawlOnly
  \/ QueryPage /\ CrawlOnly
  \/ EmptyPageUpdate /\ CrawlOnly
  \/ TxCreateGames /\ CrawlOnly
  \/ TxCreateLinks /\ CrawlOnly
  \/ TxUpdatePlatformCommit /\ CrawlOnly
  \/ Crash /\ CrawlOnly
  \/ \E p \in Platforms, qs \in (SUBSET GameQids) \ {{}} :
        UpstreamEdit(p, qs) /\ CrawlOnly

SpecCrawl == InitSpecCrawl /\ [][NextCrawl]_vars

InitSpecCache == InitCache /\ ParkedButCache

NextCache ==
  \/ \E c \in Callers, k \in CacheKeys : StartCall(c, k) /\ CacheOnly
  \/ \E c \in Callers : ProbeResponse(c) /\ CacheOnly
  \/ \E c \in Callers : ReadCache(c) /\ CacheOnly
  \/ \E c \in Callers : FullResponse(c) /\ CacheOnly
  \/ \E c \in Callers : UpsertAndReturn(c) /\ CacheOnly
  \/ \E c \in Callers : CallThrows(c) /\ CacheOnly
  \/ \E k \in CacheKeys : UpstreamRevise(k) /\ CacheOnly
  \/ \E k \in CacheKeys : UpstreamDelete(k) /\ CacheOnly

SpecCache == InitSpecCache /\ [][NextCache]_vars

InitSpecBatch == InitBatch /\ ParkedButBatch

NextBatch ==
  \/ \E includeNiche \in BOOLEAN : StartHydrate(includeNiche) /\ BatchOnly
  \/ HydrateFind /\ BatchOnly
  \/ ApplyLookup /\ BatchOnly
  \/ ApplyTxEntities /\ BatchOnly
  \/ ApplyTxDelete /\ BatchOnly
  \/ ApplyTxInsert /\ BatchOnly
  \/ ApplyTxCommit /\ BatchOnly
  \/ \E code \in DbErrors : ApplyThrows(code) /\ BatchOnly
  \/ \E enrichAllGames \in BOOLEAN : StartEnrich(enrichAllGames) /\ BatchOnly
  \/ EnrichFind /\ BatchOnly
  \/ EnrichFetch /\ BatchOnly
  \/ EnrichTxEntities /\ BatchOnly
  \/ EnrichTxDelete /\ BatchOnly
  \/ EnrichTxInsert /\ BatchOnly
  \/ EnrichTxCommit /\ BatchOnly
  \/ \E code \in DbErrors : EnrichThrows(code) /\ BatchOnly
  \/ \E q \in BatchGames : EntityRevised(q) /\ BatchOnly
  \/ \E p \in PlatformQids : PlatformImported(p) /\ BatchOnly
  \/ \E q \in BatchGames : GameStubCreated(q) /\ BatchOnly

\* The batch stages over a store of game stubs, with the upstream entities
\* and the platform and game tables changing under them.
SpecBatch == InitSpecBatch /\ [][NextBatch]_vars

\* enrichGames and backfillGameScores over one stored game.
NextScore ==
  \/ \E enrichAllGames \in BOOLEAN : StartEnrich(enrichAllGames) /\ BatchOnly
  \/ EnrichFind /\ BatchOnly
  \/ EnrichFetch /\ BatchOnly
  \/ EnrichTxEntities /\ BatchOnly
  \/ EnrichTxDelete /\ BatchOnly
  \/ EnrichTxInsert /\ BatchOnly
  \/ EnrichTxCommit /\ BatchOnly
  \/ \E code \in DbErrors : EnrichThrows(code) /\ BatchOnly
  \/ \E q \in BatchGames : EntityRevised(q) /\ BatchOnly
  \/ \E q \in BatchGames, stats \in ReviewStats :
       BackfillGameScores(q, stats) /\ BatchOnly

\* The score-recomputation stage and entity enrichment on one store.
SpecScore == InitSpecBatch /\ [][NextScore]_vars

InitSpecParse == InitParse /\ ParkedButParse

NextParse == ParseGame /\ ParseOnly

\* parseBatch applied once to a game drawn from the statement lists.
SpecParse == InitSpecParse /\ [][NextParse]_vars

InitSpecFetch == InitFetch /\ ParkedButFetch

NextFetch ==
  \/ \E response \in Responses, percent \in JitterPercents :
        FetchWithRetryAttempt(response, percent) /\ FetchOnly
  \/ FetchWithRetrySleepEnds /\ FetchOnly
  \/ \E response \in Responses : FetchJsonAttempt(response) /\ FetchOnly
  \/ FetchJsonSleepEnds /\ FetchOnly

\* One call of a fetcher against an upstream that answers anything.
SpecFetch == InitSpecFetch /\ [][NextFetch]_vars

InitSpecGate == InitGate /\ ParkedButGate

NextGate ==
  \/ \E w \in GateCallers : EnterWdqsWindow(w) /\ GateOnly
  \/ \E w \in GateCallers : WdqsTimerFires(w) /\ GateOnly
  \/ \E w \in GateCallers, status \in { 429, 503 }, waitMs \in RetryWaitsMs :
        RegisterRetry(w, status, waitMs) /\ GateOnly
  \/ \E w \in GateCallers, ok \in BOOLEAN : WdqsReturns(w, ok) /\ GateOnly
  \/ ClockAdvances /\ GateOnly

\* Concurrent callers of wdqs on one clock.
SpecGate == InitSpecGate /\ [][NextGate]_vars

InitSpecPool == InitPool /\ ParkedButPool

NextPool ==
  \/ \E n \in 0..MaxConcurrency : PoolFind(n) /\ PoolOnly
  \/ \E b \in 1..MaxConcurrency : PoolFetched(b) /\ PoolOnly
  \/ \E b \in 1..MaxConcurrency : PoolFetchThrows(b) /\ PoolOnly
  \/ \E b \in 1..MaxConcurrency : PoolWriteCommits(b) /\ PoolOnly
  \/ \E b \in 1..MaxConcurrency, code \in DbErrors :
        PoolWriteThrows(b, code) /\ PoolOnly
  \/ \E b \in 1..MaxConcurrency : PoolBackoffEnds(b) /\ PoolOnly
  \/ PoolAllResolved /\ PoolOnly
  \/ PoolExits /\ PoolOnly

\* enrichGames with up to MaxConcurrency batches in flight.
SpecPool == InitSpecPool /\ [][NextPool]_vars

InitSpecRun == InitRun /\ ParkedButRun

NextRun ==
  \/ \E stage \in Stages, reset \in BOOLEAN, missing \in SUBSET Items :
        StartProcess(stage, reset, missing) /\ RunOnly
  \/ MainBegins /\ RunOnly
  \/ MainEnds /\ RunOnly
  \/ CrawlQueries /\ RunOnly
  \/ PageLoopStep /\ RunOnly
  \/ MembershipFetches /\ RunOnly
  \/ MembershipUpserts /\ RunOnly

\* One run of a stage in an environment.
SpecRun == InitSpecRun /\ [][NextRun]_vars

InitSpecJunk == InitJunk /\ ParkedButJunk

NextJunk ==
  \/ StartFlagJunk /\ JunkOnly
  \/ FlagJunkScan /\ JunkOnly
  \/ FlagJunkWrite /\ JunkOnly
  \/ \E q \in JunkQids, content \in GameContents :
        JunkEnrichWrites(q, content) /\ JunkOnly

\* Runs of flagJunkGames over a store that enrichGames writes to.
SpecJunk == InitSpecJunk /\ [][NextJunk]_vars

InitSpecMember == InitMember /\ ParkedButMember

NextMember ==
  \/ StartMembership /\ MemberOnly
  \/ MemberFetchFails /\ MemberOnly
  \/ HydratePayload /\ MemberOnly
  \/ MembershipEnds /\ MemberOnly

\* Two runs of hydrateGamesFromMembership over the same cached entities.
SpecMember == InitSpecMember /\ [][NextMember]_vars

InitSpecNorm == InitNorm /\ ParkedButNorm

NextNorm == \E includeNiche \in BOOLEAN : NormalizeGame(includeNiche) /\ NormOnly

\* parseBatch applied to one game with or without the niche entries.
SpecNorm == InitSpecNorm /\ [][NextNorm]_vars

InitSpecScan == InitScan /\ ParkedButScan

NextScan ==
  \/ ScanFind /\ ScanOnly
  \/ ScanBatchWritten /\ ScanOnly
  \/ ScanBatchFails /\ ScanOnly

\* One run of hydrateGamesFromClaims over a table no one else writes.
SpecScan == InitSpecScan /\ [][NextScan]_vars

\* The run goes on while it has a step to take (the process is not
\* stopped from outside).
SpecScanFair == SpecScan /\ WF_vars(NextScan)

InitSpecStages == InitStages /\ ParkedButStages

NextStages ==
  \/ SetMajorPlatforms /\ StagesOnly
  \/ ImportPlatformGroupings /\ StagesOnly
  \/ CrawlStarts /\ StagesOnly

\* The three platform stages in the documented order.
SpecStages == InitSpecStages /\ [][NextStages]_vars

(***************************************************************************)
(* Roster crawler: claims                                                  *)
(***************************************************************************)

\* The greatest QID of a non-empty set, in lexical order.
LexMax(S) == CHOOSE x \in S : \A y \in S : y = x \/ LexLess(y, x)

\* C1: for every platform, the cursors committed since the platform's last
\* explicit reset (across kills and restarts, and whatever the upstream does)
\* form a strictly increasing sequence in lexical order, none of them null,
\* and the stored cursor is the last of them.
C1_CursorStrictlyIncreasing ==
  \A p \in Platforms :
    LET log == cursorLog[p]
    IN /\ \A i \in 1..Len(log) : log[i] # NullQid
       /\ \A i \in 1..(Len(log) - 1) : LexLess(log[i], log[i + 1])
       /\ gamesCursorQid[p] = IF Len(log) = 0 THEN NullQid ELSE log[Len(log)]

\* C1 witness: a platform has two committed cursors, the later one committed
\* by a run that resumed from a stored cursor after a kill.
C1_Witness ==
  /\ crashed
  /\ resumedCommit
  /\ \E p \in Platforms : Len(cursorLog[p]) >= 2

\* C2: with a fixed upstream, when ingestPlatform has returned for a platform
\* (after any number of kills and restarts) the store holds exactly one Game
\* stub and one GamePlatform link per roster identifier, no link of the
\* platform outside its roster, no row twice, and the final cursor is the
\* greatest roster identifier: the result of the uninterrupted crawl.
C2_CrashResumeSameRoster ==
  edits = 0 =>
    /\ \A q \in DOMAIN games : games[q] = 1
    /\ \A l \in DOMAIN links : links[l] = 1
    /\ \A p \in ingested :
         /\ \A q \in roster[p] :
              /\ Copies(games, q) = 1
              /\ Copies(links, [gameQid |-> q, platformQid |-> p]) = 1
         /\ \A l \in DOMAIN links :
              l.platformQid = p => l.gameQid \in roster[p]
         /\ gamesCursorQid[p] =
              IF roster[p] = {} THEN NullQid ELSE LexMax(roster[p])

\* C2 witness: a crawl of a three-game roster that was killed mid-way,
\* resumed from the stored cursor and has returned.
C2_Witness ==
  /\ edits = 0
  /\ crashed
  /\ resumedCommit
  /\ pc = "done"
  /\ \E p \in ingested : Cardinality(roster[p]) = 3

\* C3: in every committed store state, for a platform whose roster is fixed
\* since its last reset, every roster identifier lexically <= the stored
\* cursor has its Game stub and its GamePlatform link in the store.
C3_CursorNeverPastMissingRows ==
  \A p \in Platforms :
    (~rosterChanged[p] /\ gamesCursorQid[p] # NullQid) =>
      \A q \in roster[p] :
        ~LexLess(gamesCursorQid[p], q) =>
          /\ Copies(games, q) >= 1
          /\ Copies(links, [gameQid |-> q, platformQid |-> p]) >= 1

\* C3 witness: a platform is left mid-crawl by a kill inside the next page's
\* transaction: cursor committed, roster identifiers beyond it not yet stored.
C3_Witness ==
  \E p \in Platforms :
    /\ ~rosterChanged[p]
    /\ crashed
    /\ pc = "idle"
    /\ gamesCursorQid[p] # NullQid
    /\ ~gamesIngestedAt[p]
    /\ \E q \in roster[p] :
         LexLess(gamesCursorQid[p], q) /\ Copies(games, q) = 0

(***************************************************************************)
(* Revision-aware cache: claims                                            *)
(***************************************************************************)

\* Number of rows of the table holding identity key k.
RowCount(table, k) ==
  LET rs == RowsOf(table, k)
      RECURSIVE Sum(_)
      Sum(S) == IF S = {} THEN 0
                ELSE LET r == CHOOSE x \in S : TRUE
                     IN table[r] + Sum(S \ {r})
  IN Sum(rs)

\* Caller c completes the findUnique step of its call.
ReadCompletes(c) == cpc[c] = "read" /\ cpc'[c] \in {"returned", "full"}

\* Caller c returns from a call that fetched.
ReturnsFetched(c) ==
  cpc[c] = "upsert" /\ cpc'[c] = "returned" /\ result'[c].source = "fetched"

\* C5: when the probed marker equals the marker of the row stored for the
\* identity (page or entity), the call returns at once with source cache-hit
\* and the stored marker and payload, having issued exactly one probe, no
\* full-payload request and no cache write; the cache is unchanged.
C5_CacheHitSingleProbe ==
  [][\A c \in Callers :
       (/\ ReadCompletes(c)
        /\ \E r \in RowsOf(cache, callKey[c]) : r.marker = probed[c])
       => /\ cpc'[c] = "returned"
          /\ \E r \in RowsOf(cache, callKey[c]) :
               result'[c] = [source |-> "cache-hit", marker |-> r.marker,
                             payload |-> r.payload]
          /\ reqLog'[c] = << "probe" >>
          /\ cache' = cache]_vars

\* C5 witness: a page call and an entity call have both returned cache hits.
C5_Witness ==
  /\ cpc["c1"] = "returned" /\ result["c1"].source = "cache-hit"
  /\ cpc["c2"] = "returned" /\ result["c2"].source = "cache-hit"
  /\ callKey["c1"] \in PageKeys
  /\ callKey["c2"] \in EntityKeys

\* The full-payload request follows the probe when the stored marker differs
\* from the probed one or no row is stored.
FullAfterMiss(c) ==
  (/\ ReadCompletes(c)
   /\ \A r \in RowsOf(cache, callKey[c]) : r.marker # probed[c])
  => /\ cpc'[c] = "full"
     /\ reqLog'[c] = << "probe", "full" >>

\* A call returning source fetched has probed, fetched and written in that
\* order, and leaves exactly one row for the identity, holding the fetched
\* payload and the given marker.
FetchedRowHolds(c, marker) ==
  ReturnsFetched(c)
  => /\ reqLog'[c] = << "probe", "full", "write" >>
     /\ RowCount(cache', callKey[c]) = 1
     /\ \A r \in RowsOf(cache', callKey[c]) :
          /\ r.marker = marker
          /\ r.payload = fetched[c].payload
     /\ result'[c].marker = marker
     /\ result'[c].payload = fetched[c].payload

\* C6 as stated: on a differing or absent stored marker the full-payload
\* request follows the probe and the row is upserted, and on return with
\* source fetched the row holds the probed (new) marker and the payload just
\* fetched.
C6_Original_RowHoldsProbedMarker ==
  [][\A c \in Callers :
       /\ FullAfterMiss(c)
       /\ FetchedRowHolds(c, probed[c])]_vars

\* C6, amended: as above, but the marker the row holds is the one returned
\* with the result: the probed lastrevid for an entity, and for a page the
\* revision id of the content response, which is newer than the probed one
\* when the page was edited between the probe and the full-payload request.
C6_RowHoldsReturnedMarker ==
  [][\A c \in Callers :
       /\ FullAfterMiss(c)
       /\ FetchedRowHolds(c,
            IF callKey[c] \in PageKeys THEN fetched[c].revid
            ELSE probed[c])]_vars

\* C6 witness: a page call returned source fetched over a stored row of an
\* older revision, the page having been edited between probe and request.
C6_Witness ==
  \E c \in Callers :
    /\ cpc[c] = "returned"
    /\ result[c].source = "fetched"
    /\ callKey[c] \in PageKeys
    /\ cached[c] # NoRow
    /\ fetched[c].revid # probed[c]

\* C7: under any interleaving of getOrFetch calls the cache holds at most one
\* row per identity key, a stored key never loses its row, and the cache is
\* changed only by the upsert of a call whose probed marker differed from
\* the marker of the row it had read (or that had read no row).
C7_OneRowPerKeyWriteOnChange ==
  [][/\ \A k \in CacheKeys : RowCount(cache', k) <= 1
     /\ \A k \in CacheKeys : RowsOf(cache, k) # {} => RowsOf(cache', k) # {}
     /\ cache' # cache =>
          \E c \in Callers :
            /\ ReturnsFetched(c)
            /\ cached[c] = NoRow \/ cached[c].marker # probed[c]]_vars

\* C7 witness: two interleaved calls for the same key both read no row, both
\* fetched and both wrote; one row is stored.
C7_Witness ==
  /\ callKey["c1"] = callKey["c2"]
  /\ \A c \in Callers :
       /\ cpc[c] = "returned"
       /\ result[c].source = "fetched"
       /\ cached[c] = NoRow
  /\ RowCount(cache, callKey["c1"]) = 1


(***************************************************************************)
(* Batch writer and enrichment: claims                                     *)
(***************************************************************************)

\* This step is the commit of an applyBatch transaction.
HydrateCommits ==
  job.pc = "hTxScalars" /\ job'.pc = "hFind" /\ job'.errors = job.errors

\* This step is the commit of an enrichBatch transaction.
EnrichCommits == job.pc = "eTxGames" /\ job'.pc = "eFind"

\* This step is a batch write failing (for good, or before a retry).
BatchWriteFails ==
  /\ job.pc \in TxPcs
  /\ job'.errors = job.errors + 1 \/ job'.attempt = job.attempt + 1

\* The scalar fields parseBatch patches.
ScalarsOf(store, q) ==
  << store.game[q].releaseYear, store.game[q].firstReleaseAt,
     store.game[q].imageCommons >>

\* C4: when applyBatch commits for a game whose previous committed
\* applyBatch had the same inputs (same claim document, same options, same
\* existing platforms and relation targets) and no other writer rewrote the
\* game in between, every derived relation of the game holds the same rows
\* (with the same multiplicity) after the commit as before it, and
\* releaseYear, firstReleaseAt and imageCommons are unchanged.
C4_ReapplyChangesNothing ==
  [][HydrateCommits =>
       \A q \in BatchQids(job.batch) :
         applied[q] = ApplyInputs(q) =>
           /\ \A t \in HydrateTables :
                RowsOfGame(db'.derived[t], t, q) = RowsOfGame(db.derived[t], t, q)
           /\ ScalarsOf(db', q) = ScalarsOf(db, q)]_vars

\* A second application has just committed for game <<2>>, whose document
\* yields a release date without claim id, links, a relation and an image.
C4_Witness ==
  /\ lastBatch.outcome = "committed"
  /\ lastBatch.writer = "hydrate"
  /\ <<2>> \in lastBatch.repeated
  /\ \E r \in DOMAIN db.derived["releaseDate"] :
       r.gameQid = <<2>> /\ r.claimId = Null
  /\ \E r \in DOMAIN db.derived["gameRelation"] : r.fromGameQid = <<2>>
  /\ db.game[<<2>>].imageCommons = "Odd.png"

\* The properties whose statements yield rows of a table.
SourceProperties(t) ==
  CASE t = "gamePlatform" -> { "P400" }
    [] t = "gameTag" ->
         { "P136", "P179", "P408", "P404", "P921", "P2572", "P8345" }
    [] t = "gameCompany" -> { "P178", "P123" }
    [] t = "gameRelation" -> { "P155" }
    [] t = "releaseDate" -> { "P577" }
    [] t = "website" -> { "P856" }
    [] t = "externalGame" -> { "P1733", "P2725" }
    [] t = "gameImage" -> { "P18" }
    [] t = "gameVideo" -> { "P1651" }
    [] t = "gameAgeRating" -> { "P852" }
    [] t = "gameScore" -> { "P444" }
    [] OTHER -> {}

\* The column of a row that holds its statement's value.
ValueColumn(t, row) ==
  CASE t = "gamePlatform" -> row.platformQid
    [] t = "gameTag" -> row.tagId
    [] t = "gameCompany" -> row.companyQid
    [] t = "gameRelation" -> row.toGameQid
    [] t = "website" -> row.url
    [] t = "externalGame" -> row.uid
    [] t = "gameImage" -> row.imageId
    [] t = "gameVideo" -> row.videoId
    [] t = "gameAgeRating" -> row.rating
    [] t = "gameScore" -> row.score

\* The document holds a statement that yields the row.
BackedByStatement(t, row, claims) ==
  /\ claims # JsonNull
  /\ \E pid \in SourceProperties(t) \cap DOMAIN claims :
       \E i \in DOMAIN claims[pid] :
         /\ claims[pid][i].snaktype = "value"
         /\ IF t = "releaseDate"
            THEN /\ claims[pid][i].id = row.claimId
                 /\ claims[pid][i].value.y = row.year
            ELSE claims[pid][i].value = ValueColumn(t, row)

\* The document enrichBatch fetched for game q.
DocFetched(q) ==
  job.gameUpdates[CHOOSE k \in DOMAIN job.gameUpdates :
                    job.gameUpdates[k].qid = q].data.claimsJson

GameContent(store, q) ==
  [rows |-> [t \in AllTables |-> RowsOfGame(store.derived[t], t, q)],
   scalars |-> ScalarsOf(store, q)]

\* After the commit the rows of game q in table t are the rows to insert:
\* each of them is stored (or a row with its unique key is, which
\* skipDuplicates kept), and nothing else is.
RowsReplaced(store, toInsert, t, q) ==
  /\ \A r \in DOMAIN RowsOfGame(store.derived[t], t, q) :
       \E i \in DOMAIN toInsert[t] : toInsert[t][i] = r
  /\ \A i \in DOMAIN toInsert[t] :
       GameOf(t, toInsert[t][i]) = q =>
         \E r \in DOMAIN store.derived[t] :
           UniqueKey(t, r) = UniqueKey(t, toInsert[t][i])

\* C9: while a batch write is in its transaction, every step leaves the
\* committed derived rows and scalar values of the batch's games as they
\* were, except the commit: a failing step (at the entity inserts, the
\* deletes, the row inserts or the scalar updates) changes nothing of the
\* committed store, and the commit replaces the old rows of every rewritten
\* relation by the new rows in the same step.
C9_BatchWriteAllOrNothing ==
  [][job.pc \in TxPcs =>
       /\ BatchWriteFails => db' = db
       /\ \A q \in BatchQids(job.batch) :
            \/ GameContent(db', q) = GameContent(db, q)
            \/ /\ HydrateCommits
               /\ \A t \in HydrateTables : RowsReplaced(db', job.toInsert, t, q)
            \/ /\ EnrichCommits
               /\ \A t \in EnrichTables : RowsReplaced(db', job.toInsert, t, q)]_vars

\* A batch write has just failed after its transaction had changed rows
\* (deleted or inserted), and the game of the batch still has its derived
\* rows.
C9_Witness ==
  /\ lastBatch.outcome = "failed"
  /\ lastBatch.discarded
  /\ \E q \in lastBatch.qids :
       /\ \E r \in DOMAIN db.derived["releaseDate"] : r.gameQid = q
       /\ \E r \in DOMAIN db.derived["gameImage"] : r.gameQid = q

\* C10: the drop count applyBatch returns is the number of game-to-platform
\* links and game-to-game relations it did not insert because their target
\* does not exist.
C10_DropCountCoversLinksAndRelations ==
  (lastBatch.outcome = "committed" /\ lastBatch.writer = "hydrate") =>
    lastBatch.skippedGameRelationRows =
      lastBatch.droppedPlatformRows + lastBatch.droppedRelationRows

(***************************************************************************)
(* parseBatch, scalar targets: claims                                      *)
(***************************************************************************)

\* The statements of the game's document that carry a usable value for the
\* scalar target of a property: a value, and for a time a year that parses.
UsableStatements(propertyId) ==
  SelectSeq(GetPropertyStatements(parseGame.claimsJson, propertyId),
    LAMBDA st : /\ st.snaktype = "value"
                /\ propertyId = "P577" =>
                     ParseWikidataDateParts(st.value).year # NoNumber)

\* The value parseBatch derives from a statement of a scalar property.
ScalarValueOf(propertyId, st) ==
  IF propertyId = "P577" THEN << st.value.y, st.value.m, st.value.d >>
  ELSE st.value

\* The best candidate of a scalar property (a sequence, empty without one)
\* and its value.
BestCandidate(propertyId) ==
  IF propertyId = "P577" THEN parseResult.bestRelease
  ELSE parseResult.bestImage

BestValueOf(propertyId) ==
  IF propertyId = "P577" THEN parseResult.bestRelease[1].time
  ELSE parseResult.bestImage[1].value

\* C11: for a scalar target, when a statement of preferred rank with a
\* usable value exists, wherever it stands in the list, the value chosen as
\* best is the value of a preferred statement; otherwise it is the value of
\* the first statement among those of the highest rank present.
C11_PreferredStatementWins ==
  parseResult.parsed =>
    \A propertyId \in { "P577", "P18" } :
      LET sts == UsableStatements(propertyId)
          top == { i \in DOMAIN sts :
                     \A j \in DOMAIN sts :
                       GetRankScore(sts[j].rank) <= GetRankScore(sts[i].rank) }
      IN sts # << >> =>
           /\ BestCandidate(propertyId) # << >>
           /\ \E i \in top :
                /\ BestValueOf(propertyId) = ScalarValueOf(propertyId, sts[i])
                /\ GetRankScore(sts[i].rank) < 2 => \A j \in top : i <= j

\* The scalar fields parseBatch derives from a property, and the value the
\* best candidate gives each.
ScalarFieldsOf(propertyId) ==
  IF propertyId = "P577" THEN { "releaseYear", "firstReleaseAt" }
  ELSE { "imageCommons" }

BestFieldValue(field) ==
  CASE field = "releaseYear" -> parseResult.bestRelease[1].year
    [] field = "firstReleaseAt" ->
         ToUtcDate(parseResult.bestRelease[1].year,
                   parseResult.bestRelease[1].month,
                   parseResult.bestRelease[1].day)
    [] field = "imageCommons" -> parseResult.bestImage[1].value

BestRankScore(field) ==
  IF field = "imageCommons" THEN parseResult.bestImage[1].rankScore
  ELSE parseResult.bestRelease[1].rankScore

\* C12: parseBatch emits a patch of a scalar field exactly when there is a
\* best candidate, its rank is normal or preferred, and its value differs
\* from the value stored on the game.
C12_PatchIffRankedAndDiffers ==
  parseResult.parsed =>
    \A propertyId \in { "P577", "P18" } :
      \A field \in ScalarFieldsOf(propertyId) :
        (field \in DOMAIN parseResult.scalarPatch) <=>
          /\ BestCandidate(propertyId) # << >>
          /\ BestRankScore(field) >= 1
          /\ BestFieldValue(field) # parseGame[field]

\* C30: when several release-date statements share the best rank, the best
\* release, from which the scalar release year and first-release date are
\* taken, is the one with the earliest year, whatever their order.
C30_TieGoesToEarliestYear ==
  (parseResult.parsed /\ parseResult.bestRelease # << >>) =>
    \A i \in DOMAIN UsableStatements("P577") :
      LET st == UsableStatements("P577")[i]
      IN GetRankScore(st.rank) = parseResult.bestRelease[1].rankScore
           => parseResult.bestRelease[1].year
                <= ParseWikidataDateParts(st.value).year

\* The category and human form stated for a precision and parsed month and
\* day ("none" where nothing is stated).
StatedDateForm(precision, year, month, day) ==
  IF (precision # NoNumber /\ precision <= 9) \/ month = NoNumber
  THEN [category |-> "YYYY", human |-> << year >>]
  ELSE IF precision = 10
  THEN [category |-> "YYYYMMMM", human |-> << year, month >>]
  ELSE IF precision = 11 /\ day # NoNumber
  THEN [category |-> "YYYYMMMMDD", human |-> << year, month, day >>]
  ELSE [category |-> "none", human |-> << >>]

\* C13: every time statement with a year that parses gives a ReleaseDate row
\* whose category and human form follow from the precision and the presence
\* of month and day: precision 11 with month and day is the full date and
\* year-month-day; precision 10 with a month is year-month; precision 9 or
\* lower, or a missing month, is the year alone.
C13_CategoryFromPrecisionAndParts ==
  parseResult.parsed =>
    \A i \in DOMAIN UsableStatements("P577") :
      LET st == UsableStatements("P577")[i]
          parts == ParseWikidataDateParts(st.value)
          stated == StatedDateForm(st.value.precision, parts.year, parts.month,
                                   parts.day)
      IN \E k \in DOMAIN parseResult.releaseDateRows :
           LET row == parseResult.releaseDateRows[k]
           IN /\ row.claimId = st.id
              /\ row.precision = st.value.precision
              /\ row.year = parts.year
              /\ row.month = parts.month
              /\ row.day = parts.day
              /\ stated.category # "none" =>
                   /\ row.category = stated.category
                   /\ row.human = stated.human

\* C13 witness: "1998-11-23" at precision 11 became a full-date row with the
\* human form 1998-11-23, beside a row of another statement.
C13_Witness ==
  /\ parseResult.parsed
  /\ Len(parseResult.releaseDateRows) = 2
  /\ \E k \in DOMAIN parseResult.releaseDateRows :
       /\ parseResult.releaseDateRows[k].claimId = "d1"
       /\ parseResult.releaseDateRows[k].category = "YYYYMMMMDD"
       /\ parseResult.releaseDateRows[k].human = << 1998, 11, 23 >>
  /\ \E k \in DOMAIN parseResult.releaseDateRows :
       /\ parseResult.releaseDateRows[k].precision = 10
       /\ parseResult.releaseDateRows[k].category = "YYYYMMMM"
       /\ parseResult.releaseDateRows[k].human = << 1998, 11 >>

(***************************************************************************)
(* HTTP fetchers: claims                                                   *)
(***************************************************************************)

\* C14: a call with retry limit R makes at most R+1 attempts and then ends:
\* it sleeps for a retry only while fewer than R+1 attempts were made, it
\* returns on the first 2xx response and goes on after no other, and it
\* throws only after exactly R+1 attempts, the last of which failed.
C14_AtMostRetriesPlusOneAttempts ==
  /\ http.requests <= http.retries + 1
  /\ http.pc = "sleeping" => http.requests <= http.retries
  /\ http.pc = "attempt" => http.requests <= http.retries
  /\ (http.pc = "returned" /\ http.fetcher \in Fetchers) =>
       http.response.kind = "ok"
  /\ http.pc # "returned" => http.response.kind # "ok"
  /\ http.pc = "thrown" =>
       /\ http.requests = http.retries + 1
       /\ http.error # NoError

\* C14 witness: a call of fetchJson with the largest retry limit whose every
\* attempt got 503 or a rejection has thrown after R+1 attempts.
C14_Witness ==
  /\ http.fetcher = "fetchJson"
  /\ http.retries = MaxRetries
  /\ http.pc = "thrown"
  /\ http.requests = MaxRetries + 1
  /\ http.response.status = 503
  /\ http.error = HttpError(http.response)

\* C15: while a fetcher waits after a retryable response that carried a
\* Retry-After header naming a delay, the wait is that delay.
C15_RetryAfterSetsTheWait ==
  ( /\ http.pc = "sleeping"
    /\ http.response.kind = "status"
    /\ http.response.status \in RetryableStatuses
    /\ ParseRetryAfterMs(http.response.retryAfter, http.now) # << >> ) =>
    http.wait.ms = ParseRetryAfterMs(http.response.retryAfter, http.now)[1]

\* C16: after a response with a status that is neither 2xx nor retryable the
\* call has thrown the HTTP error of that response: it does not sleep and
\* makes no further attempt.
C16_NonRetryableStatusFailsAtOnce ==
  ( /\ http.response.kind = "status"
    /\ http.response.status \notin RetryableStatuses ) =>
    /\ http.pc = "thrown"
    /\ http.error = HttpError(http.response)

(***************************************************************************)
(* The query-service rate gate: claims                                     *)
(***************************************************************************)

\* C17: any two requests released by waitForWdqsWindow are released at
\* least CONFIG.wdqsMinIntervalMs apart, for any callers running at once.
C17_ReleasesAtLeastIntervalApart ==
  gate.closestReleases # << >> => gate.closestReleases[1] >= WdqsMinIntervalMs

\* This step is registerRetry raising the slow window.
RaisesSlowWindow ==
  /\ gate'.adaptiveSlowUntil > gate.adaptiveSlowUntil
  /\ gate'.now = gate.now

Writers ==
  { b \in 1..MaxConcurrency : pool.call[b].pc \in { "writing", "backoff" } }

\* C18: in the enrichment stage at most one batch write transaction is in
\* progress at any time, the backoff before a retry included, whatever the
\* fetch concurrency; the limiter's count is the number of such writes.
C18_OneBatchWriteAtATime ==
  /\ Cardinality(Writers) <= 1
  /\ pool.writeActive = Cardinality(Writers)
  /\ \A k \in DOMAIN pool.writeQueue :
       /\ pool.call[pool.writeQueue[k]].pc = "queued"
       /\ Writers # {}

\* C18 witness: with two batches in flight, one write waits in its backoff
\* holding the slot while the other batch is queued behind it.
C18_Witness ==
  /\ pool.concurrency = 2
  /\ pool.call[1].pc = "backoff"
  /\ pool.call[1].attempt = 1
  /\ pool.call[2].pc = "queued"
  /\ pool.writeQueue = << 2 >>

(***************************************************************************)
(* Failed batch writes: claims                                             *)
(***************************************************************************)

\* The wait before the run that follows the k-th failed run: the initial
\* backoff doubled k-1 times, capped.
RECURSIVE DbBackoffAfter(_)
DbBackoffAfter(k) ==
  IF k <= 1 THEN DbBackoffMs
  ELSE Min2(2 * DbBackoffAfter(k - 1), DbBackoffCapMs)

\* The retry policy for a failed run of a batch write transaction: a
\* serialization failure or deadlock with attempts left is followed by the
\* capped exponential wait and another run; anything else is raised.
ConflictPolicyHolds ==
  /\ lastBatch.attempts <= DbRetries + 1
  /\ IF lastBatch.error \in { "40001", "40P01" } /\ lastBatch.attempts <= DbRetries
     THEN /\ lastBatch.ended = "retry"
          /\ lastBatch.waitMs = DbBackoffAfter(lastBatch.attempts)
          /\ job.pc \in TxPcs
     ELSE /\ lastBatch.ended # "retry"
          /\ job.pc \notin TxPcs

\* C19: a batch write transaction that fails with a serialization failure
\* or a deadlock is run again after an exponentially growing, capped wait,
\* for at most DbRetries + 1 runs; another error is raised at once and a
\* conflict on the last run is raised as the failure of the batch.
C19_TransientConflictIsRetried ==
  lastBatch.outcome = "failed" => ConflictPolicyHolds

\* The policy of C19 for the writes of enrichGames alone.
EnrichConflictIsRetried ==
  (lastBatch.outcome = "failed" /\ lastBatch.writer = "enrich")
    => ConflictPolicyHolds

\* The games the stage of the failed batch would still find after it.
LaterGames ==
  FindGames(IF lastBatch.writer = "hydrate"
            THEN { q \in DOMAIN db.game : db.game[q].claimsJson # JsonNull }
            ELSE { q \in DOMAIN db.game :
                     job.enrichAll \/ ~db.game[q].lastEnrichedAt },
            NextCursor(job.batch, job.cursorQid), BatchSize)

\* C20: when the write of a batch has failed for good while later games
\* remain, the run has counted the failure, its cursor is the batch's last
\* game and it goes on to find the next batch; it has not ended.
C20_FailedBatchDoesNotEndRun ==
  (/\ lastBatch.outcome = "failed"
   /\ lastBatch.ended # "retry"
   /\ LaterGames # << >>)
    => /\ job.pc \in { "hFind", "eFind" }
       /\ job.errors >= 1
       /\ job.cursorQid = NextCursor(job.batch, job.cursorQid)

\* C20 for the writes of hydrateGamesFromClaims alone.
HydrateFailedBatchDoesNotEndRun ==
  lastBatch.writer = "hydrate" => C20_FailedBatchDoesNotEndRun

(***************************************************************************)
(* Roster crawler: paging, exhaustion and reset                            *)
(***************************************************************************)

\* The platforms whose upstream roster is exactly one full page and was not
\* edited since the platform's cursor was last reset.
OneFullPage ==
  { p \in Platforms : Cardinality(roster[p]) = PageSize /\ ~rosterChanged[p] }

\* The last identifier of the roster of p.
LastOfRoster(p) == SortedSeq(roster[p])[Cardinality(roster[p])]

\* This step is taken by ingestPlatform working on platform p.
IngestStepOf(p) == platform.qid = p /\ pc \in { "query", "emptyUpdate", "txGames",
                                                "txLinks", "txUpdate" }

\* C22: for a platform whose roster is exactly one full page, the crawl
\* commits one cursor advancement, to the last identifier of the page, and
\* marks the platform exhausted only after it (on the empty page); a run
\* over the exhausted platform adds no Game or GamePlatform row, stores no
\* row twice and leaves the cursor unchanged.
C22_OneFullPageRoster ==
  /\ [](\A p \in OneFullPage :
          /\ Len(cursorLog[p]) <= 1
          /\ cursorLog[p] # << >> => cursorLog[p][1] = LastOfRoster(p)
          /\ gamesIngestedAt[p] =>
               /\ cursorLog[p] = << LastOfRoster(p) >>
               /\ gamesCursorQid[p] = LastOfRoster(p)
               /\ \A q \in roster[p] :
                    /\ Copies(games, q) = 1
                    /\ Copies(links, [gameQid |-> q, platformQid |-> p]) = 1)
  /\ [][\A p \in OneFullPage :
          (gamesIngestedAt[p] /\ IngestStepOf(p))
            => /\ games' = games
               /\ links' = links
               /\ gamesCursorQid'[p] = gamesCursorQid[p]
               /\ gamesIngestedAt'[p]]_vars

\* C22 witness: a second run over the exhausted one-full-page platform has
\* received its empty page; the first run committed one advancement.
C22_Witness ==
  /\ "P_A" \in OneFullPage
  /\ gamesIngestedAt["P_A"]
  /\ cursorLog["P_A"] = << LastOfRoster("P_A") >>
  /\ platform.qid = "P_A"
  /\ platform.gamesCursorQid = LastOfRoster("P_A")
  /\ pc = "emptyUpdate"

\* C27: a platform is marked exhausted and its crawl stops only on an empty
\* page: the commit of a non-empty page, also of one shorter than the page
\* size, leaves the platform not exhausted and is followed by the request
\* of the next page.
C27_StopsOnlyOnEmptyPage ==
  [][(pc = "txUpdate" /\ pc' # "idle")
       => /\ pc' = "query"
          /\ platform' = platform
          /\ ~gamesIngestedAt'[platform.qid]]_vars

\* C28: no step of the crawl other than the reset sets a platform's cursor
\* to null or clears an exhausted flag that was set.
C28_OnlyResetClears ==
  [][pc # "reset"
       => \A p \in Platforms :
            /\ gamesCursorQid[p] # NullQid => gamesCursorQid'[p] # NullQid
            /\ gamesIngestedAt[p] => gamesIngestedAt'[p]]_vars

\* This step is the return of ingestPlatform for its platform.
IngestReturns ==
  /\ IngestStepOf(platform.qid)
  /\ platform.qid \notin ingested
  /\ platform.qid \in ingested'

\* ingestPlatform has committed a full page in this call and has not
\* returned.
BetweenFullPages ==
  /\ IngestStepOf(platform.qid)
  /\ cursor # platform.gamesCursorQid

\* C40: when ingestPlatform returns, on the empty page or on a page shorter
\* than the page size, the platform's gamesIngestedAt is set in the store;
\* while the call is between full pages it is null.
C40_ReturnSetsExhaustedMarker ==
  /\ [][IngestReturns => gamesIngestedAt'[platform.qid]]_vars
  /\ [](BetweenFullPages => ~gamesIngestedAt[platform.qid])

\* One platform returned on the empty page after a full page, another on a
\* short page, and both are marked.
C40_Witness ==
  \E p1 \in ingested, p2 \in ingested :
    /\ gamesIngestedAt[p1] /\ gamesIngestedAt[p2]
    /\ ~rosterChanged[p1] /\ ~rosterChanged[p2]
    /\ Cardinality(roster[p1]) = PageSize
    /\ cursorLog[p1] = << LastOfRoster(p1) >>
    /\ Cardinality(roster[p2]) \in 1..(PageSize - 1)
    /\ cursorLog[p2] = << LastOfRoster(p2) >>

(***************************************************************************)
(* Runs of a stage: claims                                                 *)
(***************************************************************************)

\* The run of a stage over its items has ended as a run that skips every
\* item whose fetch fails for good: it finished, counted one failure per
\* such item, and fetched and wrote every other item.
SkippedFailedItems ==
  /\ run.pc = "done"
  /\ run.failures = Cardinality(run.missing)
  /\ run.fetched = Items \ run.missing
  /\ run.written = Items \ run.missing

\* C21: in hydrateGamesFromMembership, ingestPlatformRoster and
\* fetchWikiProjectVideoGamesLists an item whose fetch fails for good (a
\* missing page or entity) is skipped and counted, and every other item of
\* the run is fetched and written.
C21_FailedItemIsSkipped ==
  (run.stage \in { "membership", "roster", "lists" }
     /\ run.pc \in { "done", "exited" })
    => SkippedFailedItems

\* C21 for hydrateGamesFromMembership alone.
MembershipSkipsFailedItems ==
  run.stage = "membership" => C21_FailedItemIsSkipped

\* C24: with no client identifier configured a run fails at start-up: it
\* never reaches its work, sends no request and writes nothing to the
\* store.
C24_NoUserAgentFailsAtStartup ==
  (run.pc # "env" /\ UserAgentMissing(run.env.WIKIDATA_USER_AGENT))
    => /\ run.pc \notin { "loop", "upsert", "done" }
       /\ run.requests = {}
       /\ run.storeWrites = 0

\* What is stated of the page size for the configured string raw: a
\* positive integer below 200 is rejected when the configuration loads;
\* an absent, unparsable or non-positive value gives 2000; else the
\* integer is the page size.
PageSizeRuleFor(raw) ==
  LET parsed == ParseInt(raw)
      rejected == run.pc = "exited" /\ run.error = "pageSize"
  IN IF raw \in { Unset, << >> } \/ parsed = << >> \/ parsed[1] <= 0
     THEN ~rejected /\ run.config.wdqsPageSize = DefaultPageSize
     ELSE IF parsed[1] < 200 THEN rejected
     ELSE ~rejected /\ run.config.wdqsPageSize = parsed[1]

\* C25 as stated: the rule holds of WDQS_PAGE_SIZE.
C25_PageSizeRuleOfWdqsPageSize ==
  run.stage = "crawl" => PageSizeRuleFor(run.env.WDQS_PAGE_SIZE)

\* C25, amended: the page size the crawler uses is never below 200, and the
\* rule holds of the string parseWdqsPageSize reads: WDQS_PAGE_SIZE when it
\* is set, else PAGE_SIZE.
C25_PageSizeRuleOfConfiguredValue ==
  run.stage = "crawl" =>
    /\ PageSizeRuleFor(IF run.env.WDQS_PAGE_SIZE # Unset
                       THEN run.env.WDQS_PAGE_SIZE ELSE run.env.PAGE_SIZE)
    /\ run.pc \in { "loop", "done" } => run.config.wdqsPageSize >= 200

\* C25 witness: WDQS_PAGE_SIZE=199 was rejected when the crawl loaded its
\* configuration.
C25_Witness ==
  /\ run.stage = "crawl"
  /\ run.env.WDQS_PAGE_SIZE = << "1", "9", "9" >>
  /\ run.pc = "exited"
  /\ run.error = "pageSize"
  /\ run.storeWrites = 0

(***************************************************************************)
(* flagJunkGames: claims                                                   *)
(***************************************************************************)

\* The row of game q as the page being written has it.
JunkRowRead(q) ==
  junk.games[CHOOSE k \in DOMAIN junk.games : junk.games[k].qid = q].row

\* C23: the cleanup removes no data. Every step keeps every Game row, and
\* a flagged game keeps its flag and its reason; a step of the cleanup
\* (one that is no write of enrichGames) changes nothing but isJunk and
\* junkReason, and sets them, for a game it
\* read as not flagged, to true and missing_claims (never enriched),
\* missing_entity (no claims stored) or missing_label (the title is a QID).
C23_FlaggingRemovesNoData ==
  [][/\ DOMAIN junkDb' = DOMAIN junkDb
     /\ \A q \in DOMAIN junkDb :
          /\ junkDb[q].isJunk =>
               /\ junkDb'[q].isJunk
               /\ junkDb'[q].junkReason = junkDb[q].junkReason
          /\ (junk.pc = "write" /\ junk'.writes = junk.writes) =>
               /\ junkDb'[q].title = junkDb[q].title
               /\ junkDb'[q].lastEnrichedAt = junkDb[q].lastEnrichedAt
               /\ junkDb'[q].claimsJson = junkDb[q].claimsJson
               /\ (junkDb'[q].isJunk /\ ~junkDb[q].isJunk) =>
                    junkDb'[q].junkReason =
                      (IF ~JunkRowRead(q).lastEnrichedAt THEN "missing_claims"
                       ELSE IF JunkRowRead(q).claimsJson = "null"
                       THEN "missing_entity" ELSE "missing_label")]_vars

\* C23 witness: a later run has passed a game that an earlier run flagged
\* as never enriched and that was enriched since, and has flagged the
\* other game for its bare title; the first game kept its reason.
C23_Witness ==
  /\ DOMAIN junkDb = JunkQids
  /\ junkDb[<<1>>].isJunk
  /\ junkDb[<<1>>].junkReason = "missing_claims"
  /\ junkDb[<<1>>].lastEnrichedAt
  /\ junkDb[<<1, 0>>].isJunk
  /\ junkDb[<<1, 0>>].junkReason = "missing_label"
  /\ junk.writes = 1
  /\ junk.pc = "find"
  /\ junk.cursorQid = <<1, 0>>

(***************************************************************************)
(* hydrateGamesFromMembership: claims                                      *)
(***************************************************************************)

\* The second run over the same cached entities has ended.
SecondRunDone == member.run = 2 /\ member.pc = "done"

\* C26: a second run of the membership hydration adds no row: when it has
\* ended, release dates, game tags, game companies and game platforms hold
\* exactly the rows they held after the first run, also for statements
\* that carry no claim id; the run reports no row created.
C26_SecondRunAddsNoRow ==
  SecondRunDone => (memberDb = member.afterFirst /\ member.created = 0)

\* Apart from release dates without a claim id, the second run adds
\* nothing: the other three tables are as the first run left them, and so
\* are the release dates that carry a claim id.
SecondRunAddsOnlyIdlessDates ==
  SecondRunDone =>
    /\ \A t \in MemberTables \ { "releaseDate" } :
         memberDb[t] = member.afterFirst[t]
    /\ \A r \in DOMAIN memberDb["releaseDate"] :
         /\ r \in DOMAIN member.afterFirst["releaseDate"]
         /\ r.claimId # Null =>
              memberDb["releaseDate"][r] = member.afterFirst["releaseDate"][r]

(***************************************************************************)
(* parseBatch on a whole document: claims                                  *)
(***************************************************************************)

\* The game with another claims document.
WithClaims(game, claims) == [game EXCEPT !.claimsJson = claims]

\* parseBatch of the game under the option the run was given.
ParsedAgain(game, includeNiche) ==
  ParseBatch(<< game >>, GetHydratableRegistryEntries(includeNiche))

\* C31: the parsed batch does not depend on properties outside the active
\* registry (no entry, status ignore, niche when niche is excluded): the
\* same game with such properties added, replaced or removed in its claims
\* document gives the parsed batch the run got.
C31_InactivePropertiesDoNotMatter ==
  norm.result.parsed =>
    \A ps \in SUBSET InactiveProperties(norm.includeNiche) :
      /\ ParsedAgain(WithClaims(norm.game,
                       WithProperties(norm.game.claimsJson, ps)),
                     norm.includeNiche) = norm.result.batch
      /\ ParsedAgain(WithClaims(norm.game,
                       WithoutProperties(norm.game.claimsJson, ps)),
                     norm.includeNiche) = norm.result.batch

\* C31 witness: a run without niche entries has parsed a document that
\* holds a video statement (niche) and an ignored property next to
\* platform statements: platform rows and no video row.
C31_Witness ==
  /\ norm.result.parsed /\ ~norm.includeNiche
  /\ { "P1651", "P279", "P400" } \subseteq DOMAIN norm.game.claimsJson
  /\ norm.result.batch.derivedRows["gamePlatform"] # << >>
  /\ norm.result.batch.derivedRows["gameVideo"] = << >>

\* The tables whose target values are strings compared without case.
StringTables == { "website", "externalGame", "gameImage", "gameVideo" }

\* The natural value of a statement for a table: the claim id of a release
\* date, or its printed date when it has none; a string without its case;
\* an item id.
NaturalValueOf(t, st) ==
  IF t = "releaseDate"
  THEN LET parts == ParseWikidataDateParts(st.value)
       IN << st.id,
             IF st.id # Null THEN << >>
             ELSE BuildReleaseDateHuman(parts.year, parts.month, parts.day,
                    ToReleaseDateCategory(st.value.precision, parts.month,
                                          parts.day)) >>
  ELSE IF t \in StringTables THEN ToLowerCase(st.value)
  ELSE st.value

\* The discriminator of a registry entry that its rows carry.
EntryDisc(t, entry) ==
  IF t \in { "gamePlatform", "gameTag", "releaseDate", "gameImage" } THEN Null
  ELSE entry.disc

\* The natural key of a row: game, discriminator and natural value.
NaturalKey(t, row) ==
  << IF t = "gameRelation" THEN row.fromGameQid ELSE row.gameQid,
     CASE t = "gameCompany" -> row.role
       [] t = "gameRelation" -> row.kind
       [] t \in { "website", "externalGame" } -> row.category
       [] t = "gameVideo" -> row.provider
       [] t = "gameAgeRating" -> row.organization
       [] OTHER -> Null,
     IF t = "releaseDate"
     THEN << row.claimId, IF row.claimId # Null THEN << >> ELSE row.human >>
     ELSE IF t \in StringTables THEN ToLowerCase(ValueColumn(t, row))
     ELSE ValueColumn(t, row) >>

\* The statements of a list with a usable value for a table: a value, and
\* for a release date a year that parses.
UsableOf(t, statements) ==
  { statements[i] :
      i \in { k \in DOMAIN statements :
                /\ statements[k].snaktype = "value"
                /\ t = "releaseDate" =>
                     ParseWikidataDateParts(statements[k].value).year
                       # NoNumber } }

\* The natural keys the statements of the game's document have in a table:
\* one for every statement with a usable value under an active entry.
StatementKeys(t) ==
  LET entries == GetHydratableRegistryEntries(norm.includeNiche)
  IN UNION
       { { << norm.game.qid, EntryDisc(t, entries[e]), NaturalValueOf(t, st) >> :
             st \in UsableOf(t, GetPropertyStatements(norm.game.claimsJson,
                                  entries[e].propertyId)) } :
           e \in { k \in DOMAIN entries : entries[k].target = TargetOf(t) } }

\* The natural keys of the rows parseBatch returned for a table.
RowKeys(t) ==
  { NaturalKey(t, norm.result.batch.derivedRows[t][i]) :
      i \in DOMAIN norm.result.batch.derivedRows[t] }

ReleaseFieldsAfter(game, batch) ==
  LET patch == IF batch.scalarUpdates = << >> THEN << >>
               ELSE batch.scalarUpdates[1].data
  IN [releaseYear |-> IF "releaseYear" \in DOMAIN patch
                      THEN patch["releaseYear"] ELSE game.releaseYear,
      firstReleaseAt |-> IF "firstReleaseAt" \in DOMAIN patch
                         THEN patch["firstReleaseAt"] ELSE game.firstReleaseAt]

\* The game as a store with other earlier scalar columns holds it.
WithScalars(game, stored) == CandidateOf(game.qid, game.claimsJson, stored)

\* C33: releaseYear and firstReleaseAt after claim normalization are a
\* function of the game's claim document: a store that holds the same
\* document with other earlier values of the fields (none, or the ones
\* entity enrichment wrote) holds, after normalization has run on it, the
\* values this store holds.
C33_ReleaseFieldsFollowDocument ==
  norm.result.parsed =>
    \A stored \in EarlierScalars(norm.game.claimsJson) :
      ReleaseFieldsAfter(WithScalars(norm.game, stored),
        ParsedAgain(WithScalars(norm.game, stored), norm.includeNiche))
        = ReleaseFieldsAfter(norm.game, norm.result.batch)

(***************************************************************************)
(* Revision-aware cache: the stored revision and payload                   *)
(***************************************************************************)

\* C34: in every state of the Wikidata entity cache the stored entityJson
\* is the payload of the revision stored as lastrevid, also when the
\* upstream entity was edited between the probe and the full-payload
\* request of the call that wrote the row.
C34_EntityPayloadIsOfStoredRevision ==
  \A r \in DOMAIN cache : r.key \in EntityKeys => r.payload = r.marker

\* C35: the version marker stored for an identity never decreases (the
\* upstream revision ids only grow), under any interleaving of concurrent
\* getOrFetch calls: no step replaces the row of an identity by one with a
\* smaller marker.
C35_StoredMarkerNeverDecreases ==
  [][\A k \in CacheKeys :
       FindUnique(cache, k) # NoRow =>
         /\ FindUnique(cache', k) # NoRow
         /\ FindUnique(cache', k).marker >= FindUnique(cache, k).marker]_vars

\* The tables for which the game's upstream entity has a statement with a
\* usable value under an active registry entry.
TablesWithStatements ==
  LET entries == GetHydratableRegistryEntries(norm.includeNiche)
  IN { t \in HydrateTables :
         \E e \in DOMAIN entries :
           /\ entries[e].target = TargetOf(t)
           /\ UsableOf(t, GetPropertyStatements(norm.entity,
                            entries[e].propertyId)) # {} }

\* C36: whichever stage last wrote Game.claimsJson (enrichGames or
\* hydrateGamesFromMembership), it is stored in the shape parseBatch reads:
\* for a game whose upstream entity has statements under a registered
\* property, parseBatch yields rows of that property's relation (so
\* applyBatch does not leave the relation of the game empty).
C36_ClaimsJsonIsReadable ==
  norm.result.parsed =>
    \A t \in TablesWithStatements : norm.result.batch.derivedRows[t] # << >>

\* What enrichGames wrote is read: rows for every relation with statements.
EnrichWrittenClaimsAreRead ==
  (norm.result.parsed /\ norm.writer = "enrichGames") =>
    \A t \in TablesWithStatements : norm.result.batch.derivedRows[t] # << >>

\* An iteration of main's loop that tried a batch moved the cursor to a
\* strictly greater QID, and a loop head either ends the run or tries a
\* batch.
IterationAdvances ==
  /\ scan.pc = "write" =>
       /\ scan'.pc = "find"
       /\ LexLess(scan.cursorQid, scan'.cursorQid)
  /\ scan.pc = "find" => scan'.pc \in { "done", "write" }

\* C37: the run of hydrateGamesFromClaims over a finite Game table ends,
\* also when the write of every batch fails and when --max-games is set:
\* every loop iteration ends the run or moves the cursor to a strictly
\* greater QID.
C37_RunTerminates ==
  /\ [][IterationAdvances]_vars
  /\ <>(scan.pc = "done")

\* A capped run over several games has ended after the write of each of its
\* batches failed.
C37_Witness ==
  /\ scan.pc = "done"
  /\ scan.maxGames # NoCap
  /\ scan.batchIndex >= 2
  /\ scan.errors = scan.batchIndex

\* The GameScore rows of provider INTERNAL of the games of the batch.
InternalScores(store) ==
  { r \in DOMAIN store.derived["gameScore"] :
      r.provider = "INTERNAL" /\ r.gameQid \in BatchQids(job.batch) }

\* C38: when enrichBatch commits, every GameScore row of provider INTERNAL
\* that a game of the batch had before is still there with the same score
\* and count.
C38_EnrichmentKeepsInternalScores ==
  [][EnrichCommits => InternalScores(db) \subseteq InternalScores(db')]_vars

\* C39: in the documented stage order, every platform setMajorPlatforms
\* marked as major and that has no entry in the override file is still
\* marked major when the roster crawl starts (importPlatformGroupings left
\* its isMajor unchanged).
C39_MarkedPlatformsStayMajor ==
  plat.pc = "crawl" =>
    \A q \in plat.marked :
      plat.overrides[q] = "absent" => plat.platform[q].isMajor

\* Platforms that are not in the seed file keep their mark.
UnseededPlatformsStayMajor ==
  plat.pc = "crawl" =>
    \A q \in plat.marked \ plat.seed : plat.platform[q].isMajor

====
